---- MODULE Spec2Model ----
(***************************************************************************)
(* A model of the core of fhir-r4-mcp-server: the connection registry      *)
(* (core/connection_manager.py), the SMART Backend Services provider       *)
(* (core/auth/smart_backend.py), the request client (core/client.py) and   *)
(* the bulk export tools (server.py); and of four components that share   *)
(* only the clock with them: the MemoryCache (cache/memory_cache.py), the  *)
(* WebhookHandler (subscriptions/handlers.py), the AuditLogger             *)
(* (audit/logger.py) and the WebSocketManager (subscriptions/websocket.py).*)
(*                                                                         *)
(* Every coroutine is a call slot; an await of a network answer is a       *)
(* suspension point, so one handler is one action per stretch of code      *)
(* between two awaits.  Network answers are inputs drawn from small sets.  *)
(***************************************************************************)
EXTENDS Integers, Sequences, FiniteSets, TLC

VARIABLES
    now,          \* datetime.utcnow(), in ticks
    connections,  \* ConnectionManager._connections: connection id -> object (0: absent)
    heap,         \* the Connection objects, by object identity
    calls,        \* the coroutines in flight, one per slot
    last,         \* what the operation that completed in the last step gave its caller
    reported,     \* the phase the bulk export tools last reported of each job
    memory_cache, \* the MemoryCache: _cache, _access_order and its counters
    cache_last,   \* the MemoryCache operation of the last step, and what it returned
    webhook,      \* the WebhookHandler: _callbacks and _running
    hook_call,    \* the handle_notification coroutine in flight
    hook_last,    \* the handle_notification that ended in the last step
    audit,        \* the AuditLogger, its worker task and the stop() in flight
    audit_hist,   \* the events log() accepted, and how many when stop() was called
    ws,           \* the WebSocketManager: _connections, _tasks, its loops, the disconnect in flight
    ws_last       \* what a loop or disconnect() did in the last step

\* The components beside the registry and its tools: each has its own operations
\* and shares only the clock with the rest.
parts ==
    <<memory_cache, cache_last, webhook, hook_call, hook_last, audit, audit_hist,
      ws, ws_last>>

\* The registry, its Connection objects and the coroutines of its tools
core == <<connections, heap, calls, last, reported>>

vars == <<now, connections, heap, calls, last, reported, memory_cache, cache_last,
          webhook, hook_call, hook_last, audit, audit_hist, ws, ws_last>>

----------------------------------------------------------------------------
\* Bounds of the model

MaxTime == 1       \* the clock stops here
MaxObj == 2        \* Connection objects alive at one time
MaxAuth == 3       \* AuthResult instances one Connection holds, one after the other

AllConnIds == {"c1", "c2"}   \* the connection ids the registry may hold
ConnIds == {"c1"}    \* the connection id most callers use
JobIds == {<<"j1">>}   \* the job ids the bulk export tools are called with
Slots == {1, 2}    \* coroutines that can be in flight at one time
One == {1}         \* one caller at a time: every call ends before the next begins
Objs == 1..MaxObj

----------------------------------------------------------------------------
\* Strings are sequences of tokens; "/" is the one token str.split("/") and
\* str.rstrip("/") look at.

BaseUrl == <<"https:", "/", "/", "x">>
BaseUrls == {BaseUrl, BaseUrl \o <<"/">>}

RECURSIVE rstrip_slash(_)
rstrip_slash(s) ==
    IF s # <<>> /\ s[Len(s)] = "/" THEN rstrip_slash(SubSeq(s, 1, Len(s) - 1)) ELSE s

----------------------------------------------------------------------------
\* AuthResult, Connection

\* An optional value is a sequence of length at most one: <<>> is None.
None == <<>>
Some(v) == <<v>>

NoAuth == [id |-> 0, expires_at |-> None]

is_expired(a, t) ==
    IF a.expires_at = None THEN FALSE ELSE t >= a.expires_at[1]

is_authenticated(conn, t) ==
    IF conn.auth_result = NoAuth THEN FALSE ELSE ~is_expired(conn.auth_result, t)

NewConnection(cid, base_url) ==
    [connection_id |-> cid, base_url |-> rstrip_slash(base_url),
     status |-> "disconnected", auth_result |-> NoAuth, last_used_at |-> None]

NoConn == NewConnection("", <<>>)

----------------------------------------------------------------------------
\* SMART Backend Services provider: the token endpoint's answer to one token
\* request, and what authenticate() makes of it.

DefaultExpiresIn == 3600

TokenResponses ==
    {[transport |-> "error", status_code |-> 0, access_token |-> FALSE, expires_in |-> None],
     [transport |-> "ok", status_code |-> 400, access_token |-> FALSE, expires_in |-> None],
     [transport |-> "ok", status_code |-> 200, access_token |-> FALSE, expires_in |-> None]}
    \cup {[transport |-> "ok", status_code |-> 200, access_token |-> TRUE, expires_in |-> e] :
             e \in {None, Some(0), Some(1)}}

\* The outcome of authenticate(): "ok" with the AuthResult, "FHIRAuthError" (a non-200
\* answer or a transport error), or "KeyError" (a 200 answer without access_token,
\* which is not a FHIRAuthError).
authenticate(resp, t, id) ==
    IF resp.transport # "ok" THEN [outcome |-> "FHIRAuthError", result |-> NoAuth]
    ELSE IF resp.status_code # 200 THEN [outcome |-> "FHIRAuthError", result |-> NoAuth]
    ELSE IF ~resp.access_token THEN [outcome |-> "KeyError", result |-> NoAuth]
    ELSE LET expires_in == IF resp.expires_in = None THEN DefaultExpiresIn
                           ELSE resp.expires_in[1]
         IN [outcome |-> "ok", result |-> [id |-> id, expires_at |-> Some(t + expires_in)]]

\* refresh(previous) is authenticate() again; previous is not read.
refresh_mutant(previous, resp, t, id) ==
    IF resp.transport = "ok" /\ resp.status_code = 400
    THEN [outcome |-> "ok", result |-> previous]
    ELSE authenticate(resp, t, id)
refresh(previous, resp, t, id) == authenticate(resp, t, id)


----------------------------------------------------------------------------
\* Coroutines

NoEntry == [auth |-> NoAuth, status |-> ""]

\* The arguments of a call of the request client or of a tool.
NoArgs ==
    [method |-> "", path |-> <<>>, job_id |-> <<>>, export_type |-> "", group_id |-> None,
     resource_type |-> None, file_index |-> None]

\* A coroutine: the operation it runs (op), where it is suspended (pc, and stage
\* for a tool that awaits more than once), its arguments and locals, and the HTTP
\* requests it has issued so far (reqs).  tokens holds the answers the token
\* endpoint gave to the call's ensure_authenticated, each with the time it came.
\* reg_at_call is the registry's entry for
\* the id when a connect was called.
IdleCall ==
    [op |-> "idle", pc |-> "idle", stage |-> "", cid |-> "", args |-> NoArgs,
     obj |-> 0, conn |-> NoConn, reg_at_call |-> 0,
     entry |-> NoEntry, nrefresh |-> 0, nauth |-> 0,
     refresh_outcome |-> "", reauth_outcome |-> "",
     tokens |-> <<>>, reqs |-> <<>>, resps |-> <<>>, files |-> <<>>, downloaded |-> <<>>]

NoLast ==
    [op |-> "", cid |-> "", args |-> NoArgs, outcome |-> "", obj |-> 0, conn |-> NoConn,
     entry |-> NoEntry,
     nrefresh |-> 0, nauth |-> 0, refresh_outcome |-> "", reauth_outcome |-> "",
     tokens |-> <<>>, reqs |-> <<>>, resps |-> <<>>, reg_at_call |-> 0, reg_before |-> 0,
     value |-> <<>>]

Idle(p) == calls[p].op = "idle"

\* Coroutines are interchangeable: a new one takes the first idle slot.
Starts(p) == Idle(p) /\ \A q \in Slots : Idle(q) => p <= q

\* Object identity.  An object is alive while the registry or a coroutine refers to
\* it; a new object takes the lowest name no live object has, and an object nothing
\* refers to any more is forgotten.
LiveObjs(conns, cs) == {conns[c] : c \in AllConnIds} \cup {cs[p].obj : p \in Slots}
FreeObjs == Objs \ LiveObjs(connections, calls)
NewObj == CHOOSE o \in FreeObjs : \A o2 \in FreeObjs : o <= o2
Collect(h, conns, cs) == [o \in Objs |-> IF o \in LiveObjs(conns, cs) THEN h[o] ELSE NoConn]

\* AuthResult identity.  An AuthResult belongs to the one Connection that holds it,
\* so an instance is named by its place in the sequence of AuthResults that
\* Connection has held.
NewAuth(conn) == conn.auth_result.id + 1

\* A token request can be answered with a token only while an instance is left to name.
Answerable(conn, resp) ==
    authenticate(resp, now, 1).outcome = "ok" => conn.auth_result.id < MaxAuth

\* ConnectionManager.get
get(cid) ==
    IF connections[cid] = 0 THEN [outcome |-> "FHIRConnectionError", conn |-> NoConn]
    ELSE [outcome |-> "ok", conn |-> heap[connections[cid]]]

\* ConnectionManager.list_connections: the status each registered connection shows
list_connections == {heap[connections[c]] : c \in {d \in AllConnIds : connections[d] # 0}}

\* cache/memory_cache.py, MemoryCache.__init__: nothing cached, the counters at 0.
\* cache maps a key to None or to its CacheEntry.
CacheKeys == {<<"a", "1">>, <<"a", "2">>, <<"b", "1">>}

NewMemoryCache ==
    [cache |-> [k \in CacheKeys |-> None], access_order |-> <<>>,
     hits |-> 0, misses |-> 0, evictions |-> 0]

\* No MemoryCache operation ran in the last step.  evicted: the keys that were
\* cached when set began and no longer were when its eviction loop ended.
NoCacheLast == [op |-> "", key |-> None, evicted |-> {}, value |-> None]

\* subscriptions/handlers.py, WebhookHandler.__init__ without callbacks
NewWebhookHandler == [callbacks |-> <<>>, running |-> FALSE]

\* No handle_notification is in flight.  idx: the list iterator's position in
\* _callbacks; at_call: _callbacks as the call found it; delivered: the
\* callbacks called so far; gone, came: the callbacks unregistered and
\* registered since the call began.
NoHookCall ==
    [pc |-> "idle", event_type |-> "", idx |-> 0, at_call |-> <<>>,
     delivered |-> <<>>, gone |-> {}, came |-> {}]

NoHookLast ==
    [op |-> "", event_type |-> "", at_call |-> <<>>, delivered |-> <<>>,
     gone |-> {}, came |-> {}]

\* audit/logger.py, AuditLogger.__init__ with the default AuditConfig (enabled,
\* async_logging).  queue and unfinished are the asyncio.Queue and its count of
\* items not yet marked task_done; written is the log file, lost the events
\* whose write failed; worker is the position of the _worker task ("" when
\* there is none), event the event it is writing, cancel whether the task was
\* cancelled; stop_pc is the position of the stop() in flight.
NewAuditLogger ==
    [running |-> FALSE, task |-> FALSE, queue |-> <<>>, unfinished |-> 0,
     written |-> <<>>, lost |-> {}, worker |-> "", event |-> None, cancel |-> FALSE,
     stop_pc |-> "idle"]

\* An event is named by its place among the events log() accepted.  at_stop: how
\* many had been accepted when the last stop() was called; started: whether that
\* stop() found a worker task; returned: stop() returned in the last step.
NoAuditHist == [accepted |-> 0, at_stop |-> 0, started |-> FALSE, returned |-> FALSE]

\* subscriptions/websocket.py, WebSocketManager.__init__.  connect() makes one
\* WebSocketConnection and one task at a time, so a pair is named by one number.
\* connections and tasks map a subscription id to such a number (0: no entry);
\* loops holds each pair: the connection's fields, the position of the task's
\* _connection_loop ("" before it exists) and whether the task was cancelled;
\* disc is the disconnect() in flight.
MaxLoops == 3          \* the connections connect() makes
SubIds == {"s1", "s2"}
Loops == 1..MaxLoops

NoLoop ==
    [subscription_id |-> "", pc |-> "", websocket |-> FALSE, connected |-> FALSE,
     reconnect_attempts |-> 0, cancel |-> FALSE]

NoDisc == [pc |-> "idle", subscription_id |-> "", task |-> 0]

NewWebSocketManager ==
    [connections |-> [s \in SubIds |-> 0], tasks |-> [s \in SubIds |-> 0],
     loops |-> [k \in Loops |-> NoLoop], disc |-> NoDisc]

NoWsLast == [op |-> "", subscription_id |-> "", loop |-> 0]

\* Watched: the jobs whose reported phase is followed in `reported`.
InitWith(Watched) ==
    /\ now = 0
    /\ connections = [c \in AllConnIds |-> 0]
    /\ heap = [o \in Objs |-> NoConn]
    /\ calls = [p \in Slots |-> IdleCall]
    /\ last = NoLast
    /\ reported = [j \in Watched |-> ""]
    /\ memory_cache = NewMemoryCache
    /\ cache_last = NoCacheLast
    /\ webhook = NewWebhookHandler
    /\ hook_call = NoHookCall
    /\ hook_last = NoHookLast
    /\ audit = NewAuditLogger
    /\ audit_hist = NoAuditHist
    /\ ws = NewWebSocketManager
    /\ ws_last = NoWsLast

Init == InitWith({})
JobInit == InitWith(JobIds)

\* The server keeps no record of a job.  reported[j] follows what its tools tell
\* their callers about job j: the phase the last start, status poll or cancel
\* reported of it ("" before any).  phase_reported is what an operation that ends
\* tells: None, or a job and its phase.
phase_reported(op, args, outcome, value) ==
    IF outcome # "ok" THEN None
    ELSE CASE op = "fhir_bulk_export_start" /\ value.success ->
                  IF value.data.job_id = None THEN None
                  ELSE Some([job_id |-> value.data.job_id[1], phase |-> value.data.status])
           [] op = "fhir_bulk_export_status" /\ value.success ->
                  Some([job_id |-> args.job_id, phase |-> value.data.status])
           [] op = "fhir_bulk_export_cancel" /\ value.success /\ value.data.cancelled ->
                  Some([job_id |-> args.job_id, phase |-> "cancelled"])
           [] OTHER -> None

\* A step in which no operation ends.
Quiet == last' = NoLast /\ UNCHANGED reported /\ UNCHANGED parts

\* `last` is NoLast after a step in which no operation ended.
\* The operation in slot p ends: its caller gets `outcome` ("ok" or the exception
\* raised) and, when it returns, `value`.  conn is the Connection the operation
\* held as it ended, and reg_before the registry's entry for the operation's
\* connection id right before this step.
Finish(p, c, outcome, conn, value) ==
    /\ calls' = [calls EXCEPT ![p] = IdleCall]
    /\ last' = [op |-> c.op, cid |-> c.cid, args |-> c.args, outcome |-> outcome,
                obj |-> c.obj,
                conn |-> conn, entry |-> c.entry, nrefresh |-> c.nrefresh,
                nauth |-> c.nauth, refresh_outcome |-> c.refresh_outcome,
                reauth_outcome |-> c.reauth_outcome,
                tokens |-> c.tokens, reqs |-> c.reqs, resps |-> c.resps,
                reg_at_call |-> c.reg_at_call,
                reg_before |-> connections[c.cid], value |-> value]
    /\ LET told == phase_reported(c.op, c.args, outcome, value)
       IN reported' = [j \in DOMAIN reported |->
                          IF told # None /\ told[1].job_id = j THEN told[1].phase
                          ELSE reported[j]]
    /\ UNCHANGED parts


----------------------------------------------------------------------------
\* utils/errors.py: the FHIRError classes, as to_dict shows them

FHIRErrors ==
    {"FHIRConnectionError", "FHIRAuthError", "FHIRResourceNotFoundError",
     "FHIRRateLimitError", "FHIRServerError", "FHIRNetworkError"}

error_code(kind, expired) ==
    CASE kind = "FHIRConnectionError" -> "FHIR_CONNECTION_NOT_FOUND"
      [] kind = "FHIRAuthError" -> IF expired THEN "FHIR_AUTH_EXPIRED" ELSE "FHIR_AUTH_FAILED"
      [] kind = "FHIRResourceNotFoundError" -> "FHIR_RESOURCE_NOT_FOUND"
      [] kind = "FHIRRateLimitError" -> "FHIR_RATE_LIMITED"
      [] kind = "FHIRServerError" -> "FHIR_SERVER_ERROR"
      [] kind = "FHIRNetworkError" -> "FHIR_NETWORK_ERROR"
      [] OTHER -> "FHIR_ERROR"

error_recoverable(kind) ==
    kind \in {"FHIRConnectionError", "FHIRAuthError", "FHIRRateLimitError",
              "FHIRServerError", "FHIRNetworkError"}

\* FHIRRateLimitError.__init__, line 239: `if retry_after:` keeps a number only
\* when it is not zero.
rate_limit_details(retry_after) ==
    IF retry_after # None /\ retry_after[1] # 0 THEN retry_after ELSE None

\* An exception: its class, what to_dict shows of it, and the details the claims
\* speak of (retry_after_seconds of a FHIRRateLimitError, status_code of a
\* FHIRServerError).
error(kind, expired, retry_after, status_code) ==
    [kind |-> kind, code |-> error_code(kind, expired),
     recoverable |-> error_recoverable(kind), expired |-> expired,
     retry_after_seconds |-> IF kind = "FHIRRateLimitError"
                             THEN rate_limit_details(retry_after) ELSE None,
     status_code |-> status_code]

----------------------------------------------------------------------------
\* core/client.py: FHIRClient

\* The characters of a header value that stand for digits.
DigitOf ==
    ("0" :> 0) @@ ("1" :> 1) @@ ("2" :> 2) @@ ("3" :> 3) @@ ("4" :> 4) @@
    ("5" :> 5) @@ ("6" :> 6) @@ ("7" :> 7) @@ ("8" :> 8) @@ ("9" :> 9)

\* int(text) for a text without sign or blanks: its value, or ValueError.
IsInt(text) == text # <<>> /\ \A i \in 1..Len(text) : text[i] \in DOMAIN DigitOf

RECURSIVE int(_)
int(text) ==
    IF text = <<>> THEN 0
    ELSE 10 * int(SubSeq(text, 1, Len(text) - 1)) + DigitOf[text[Len(text)]]

\* What the FHIR server, or the network, answers a request of the client with.
RetryAfters == {None, Some(<<"0">>), Some(<<"1", "2">>), Some(<<"W", "e", "d">>)}

ClientResponses ==
    {[transport |-> t, status_code |-> 0, retry_after |-> None, content |-> ""] :
        t \in {"timeout", "error"}}
    \cup {[transport |-> "ok", status_code |-> 200, retry_after |-> None, content |-> b] :
            b \in {"json", "not json"}}
    \cup {[transport |-> "ok", status_code |-> st, retry_after |-> None, content |-> ""] :
            st \in {204, 400, 401, 403, 404, 500, 503}}
    \cup {[transport |-> "ok", status_code |-> 429, retry_after |-> h, content |-> ""] :
            h \in RetryAfters}

is_success(status_code) == 200 <= status_code /\ status_code < 300

\* FHIRClient._handle_error_response: the exception raised for a response that is
\* not a success, kind "" when none is raised.
handle_error_response(resp) ==
    LET raise(kind, expired, retry_after, status_code) ==
            [outcome |-> kind, value |-> error(kind, expired, retry_after, status_code)]
    IN CASE resp.status_code = 401 -> raise("FHIRAuthError", TRUE, None, None)
         [] resp.status_code = 403 -> raise("FHIRAuthError", FALSE, None, None)
         [] resp.status_code = 404 -> raise("FHIRResourceNotFoundError", FALSE, None, None)
         [] resp.status_code = 429 ->
                IF resp.retry_after = None
                THEN raise("FHIRRateLimitError", FALSE, None, None)
                ELSE IF IsInt(resp.retry_after[1])
                THEN raise("FHIRRateLimitError", FALSE, Some(int(resp.retry_after[1])), None)
                ELSE [outcome |-> "ValueError", value |-> <<>>]
         [] resp.status_code \notin {401, 403, 404, 429} /\ resp.status_code >= 500 ->
                raise("FHIRServerError", FALSE, None, Some(resp.status_code))
         [] OTHER -> [outcome |-> "", value |-> <<>>]

\* Lines 158-180 of FHIRClient.request: what the caller gets for a response.
request_result(resp) ==
    CASE resp.transport # "ok" ->
             [outcome |-> "FHIRNetworkError",
              value |-> error("FHIRNetworkError", FALSE, None, None)]
      [] resp.transport = "ok" /\ ~is_success(resp.status_code)
             /\ handle_error_response(resp).outcome # "" -> handle_error_response(resp)
      [] OTHER ->
             IF resp.content = "" THEN [outcome |-> "ok", value |-> "{}"]
             ELSE IF resp.content = "json" THEN [outcome |-> "ok", value |-> "json"]
             ELSE [outcome |-> "JSONDecodeError", value |-> <<>>]

\* Line 147: urljoin(base_url + "/", path.lstrip("/")) for a relative path.
RECURSIVE lstrip_slash(_)
lstrip_slash(s) == IF s # <<>> /\ s[1] = "/" THEN lstrip_slash(Tail(s)) ELSE s

request_url(base_url, path) == base_url \o <<"/">> \o lstrip_slash(path)

RequestPaths == {<<"Patient">>, <<"/", "Patient", "/", "1">>}

\* A coroutine issues an HTTP request and awaits the response.
Send(p, c, req) ==
    /\ calls' = [calls EXCEPT ![p] = [c EXCEPT !.pc = "http", !.reqs = Append(@, req)]]
    /\ Quiet

Tick ==
    /\ now < MaxTime
    /\ now' = now + 1
    /\ Quiet
    /\ UNCHANGED <<connections, heap, calls>>

----------------------------------------------------------------------------
\* ConnectionManager.connect

AuthTypes == {"smart_backend", "oauth2", "bogus"}

\* AuthType(auth_type) and _create_auth_provider: only smart_backend with a
\* complete configuration gives a provider; anything else raises ValueError.
create_auth_provider(auth_type, config_ok) == auth_type = "smart_backend" /\ config_ok

\* The new Connection is local to connect until line 174; it is named when it is
\* stored, and a connect in flight has a name reserved.
ConnectsInFlight == Cardinality({p \in Slots : calls[p].op = "connect"})

\* Lines 163-171: what the answer of authenticate() makes of the new Connection.
connect_after_auth_mutant(conn, r) ==
    IF r.outcome = "ok" THEN [conn EXCEPT !.auth_result = r.result]
    ELSE IF r.outcome = "FHIRAuthError" THEN [conn EXCEPT !.status = "error"]
    ELSE conn
connect_after_auth(conn, r) ==
    IF r.outcome = "ok" THEN [conn EXCEPT !.auth_result = r.result, !.status = "connected"]
    ELSE IF r.outcome = "FHIRAuthError" THEN [conn EXCEPT !.status = "error"]
    ELSE conn

\* Line 174 is reached only when authenticate() raised nothing.
connect_stores_mutant(r) == r.outcome \in {"ok", "FHIRAuthError"}
connect_stores(r) == r.outcome = "ok"

ConnectCall(p, cid, base_url, auth_type, config_ok) ==
    /\ Starts(p)
    /\ Cardinality(FreeObjs) > ConnectsInFlight
    /\ LET c == [IdleCall EXCEPT !.op = "connect", !.cid = cid,
                                 !.reg_at_call = connections[cid]] IN
       IF ~create_auth_provider(auth_type, config_ok)
       THEN /\ Finish(p, c, "ValueError", NoConn, <<>>)
            /\ UNCHANGED <<now, connections, heap>>
       ELSE /\ calls' = [calls EXCEPT ![p] =
                            [c EXCEPT !.pc = "authenticate", !.nauth = 1,
                                      !.conn = NewConnection(cid, base_url)]]
            /\ Quiet
            /\ UNCHANGED <<now, connections, heap>>

ConnectAuthResponse(p, resp) ==
    /\ calls[p].op = "connect" /\ calls[p].pc = "authenticate"
    /\ Answerable(calls[p].conn, resp)
    /\ LET c == calls[p]
           r == authenticate(resp, now, NewAuth(c.conn))
           conn == connect_after_auth(c.conn, r)
           o == NewObj
       IN IF connect_stores(r)
          THEN /\ connections' = [connections EXCEPT ![c.cid] = o]
               /\ Finish(p, [c EXCEPT !.obj = o], r.outcome, conn, <<>>)
               /\ heap' = Collect([heap EXCEPT ![o] = conn], connections', calls')
          ELSE /\ UNCHANGED <<heap, connections>>
               /\ Finish(p, c, r.outcome, conn, <<>>)
    /\ UNCHANGED now

----------------------------------------------------------------------------
\* ConnectionManager.disconnect: no await, so one step

\* Lines 188-192: the entry is deleted when there is one, and whether there was
\* one is returned.
disconnect_removes_mutant(conns, cid) == [c \in DOMAIN conns |-> 0]
disconnect_removes(conns, cid) == [conns EXCEPT ![cid] = 0]

disconnect_returns(conns, cid) == conns[cid] # 0

Disconnect(p, cid) ==
    /\ Starts(p)
    /\ connections' = disconnect_removes(connections, cid)
    /\ heap' = Collect(heap, connections', calls)
    /\ last' = [NoLast EXCEPT !.op = "disconnect", !.cid = cid, !.outcome = "ok",
                              !.reg_before = connections[cid],
                              !.value = disconnect_returns(connections, cid)]
    /\ UNCHANGED <<now, calls, reported>>
    /\ UNCHANGED parts

----------------------------------------------------------------------------
\* ConnectionManager.ensure_authenticated

\* Line 239: the token is refreshed when there is an AuthResult and it is expired.
needs_refresh_mutant(conn, t) == conn.auth_result # NoAuth
needs_refresh(conn, t) == conn.auth_result # NoAuth /\ is_expired(conn.auth_result, t)

\* Line 241
mark_expired(conn) == [conn EXCEPT !.status = "token_expired"]

\* Lines 245-248 and 251-252: the new AuthResult replaces the old one.
token_replaced_mutant(conn, a) == [conn EXCEPT !.auth_result = a]
token_replaced(conn, a) == [conn EXCEPT !.auth_result = a, !.status = "connected"]

\* Lines 245 and 251: `connection.auth_result = await ...` assigns whatever the
\* connection holds by then; entry is what the call saw as it began.
assign_auth_result_mutant(conn, a, entry) ==
    IF conn.auth_result = entry.auth THEN token_replaced(conn, a) ELSE conn
assign_auth_result(conn, a, entry) == token_replaced(conn, a)

\* Lines 237-253: `connection` is the object the call looked up as it began, not
\* what the registry holds under the id by now.
connection_mutant(c) == IF connections[c.cid] # 0 THEN connections[c.cid] ELSE c.obj
connection(c) == c.obj

\* Line 249: only a FHIRAuthError of refresh() leads to the full authenticate().
falls_back_mutant(outcome) == TRUE
falls_back(outcome) == outcome = "FHIRAuthError"

\* An exception leaving ensure_authenticated writes nothing to the Connection.
raise_leaves_mutant(conn) == [conn EXCEPT !.status = "connected"]
raise_leaves(conn) == conn

\* Line 254
----------------------------------------------------------------------------
\* core/response_processor.py: the envelope a tool returns

create_success_response(data) ==
    [success |-> TRUE, code |-> "", recoverable |-> FALSE, message |-> "", data |-> data]

\* create_error_response: to_dict of a FHIRError, FHIR_ERROR for any other exception.
create_error_response(kind, expired, message) ==
    [success |-> FALSE,
     code |-> IF kind \in FHIRErrors THEN error_code(kind, expired) ELSE "FHIR_ERROR",
     recoverable |-> kind \in FHIRErrors /\ error_recoverable(kind),
     message |-> message, data |-> <<>>]

\* server.py, fhir_connect: the tool around ConnectionManager.connect.  It returns
\* the Connection in a success envelope, and an error envelope for whatever connect
\* raised (except FHIRError, except Exception).
fhir_connect(outcome, conn) ==
    IF outcome = "ok" THEN create_success_response(conn)
    ELSE create_error_response(outcome, FALSE, "")

----------------------------------------------------------------------------
\* server.py: the bulk export tools, what they compute

BulkTools ==
    {"fhir_bulk_export_start", "fhir_bulk_export_status", "fhir_bulk_export_download",
     "fhir_bulk_export_cancel"}

ExportTypes == {"system", "patient", "group", "bogus"}
GroupIds == {None, Some(""), Some("g1")}

\* Lines 570-585: the export path, None when the arguments are refused.  Line 575,
\* `if not group_id`, refuses the empty string as it refuses None.
export_path_mutant(export_type, group_id) ==
    CASE export_type = "system" -> Some(<<"$export">>)
      [] export_type = "patient" -> Some(<<"Patient", "/", "$export">>)
      [] export_type = "group" -> Some(<<"Group", "/", "$export">>)
      [] OTHER -> None
export_path(export_type, group_id) ==
    CASE export_type = "system" -> Some(<<"$export">>)
      [] export_type = "patient" -> Some(<<"Patient", "/", "$export">>)
      [] export_type = "group" ->
             IF group_id = None \/ group_id = Some("") THEN None
             ELSE Some(<<"Group", "/", group_id[1], "/", "$export">>)
      [] OTHER -> None

\* Line 608
export_url(base_url, path) == base_url \o <<"/">> \o path

\* Lines 674 and 841
status_url_mutant(base_url, job_id) == base_url \o <<"/">> \o job_id
status_url(base_url, job_id) == base_url \o <<"/", "$export-status", "/">> \o job_id

\* content_location.split("/")[-1]: what follows the last "/"
RECURSIVE last_segment(_)
last_segment(s) ==
    IF s = <<>> \/ s[Len(s)] = "/" THEN <<>>
    ELSE last_segment(SubSeq(s, 1, Len(s) - 1)) \o <<s[Len(s)]>>

\* The Content-Location header of a kick-off response; <<>> when absent or empty.
ContentLocations ==
    {<<>>,
     BaseUrl \o <<"/", "$export-status", "/", "j1">>,
     BaseUrl \o <<"/", "jobs", "/", "j1">>,
     BaseUrl \o <<"/", "$export-status", "/", "j1", "/">>}

KickoffResponses ==
    {[transport |-> "error", status_code |-> 0, content_location |-> <<>>]}
    \cup {[transport |-> "ok", status_code |-> st, content_location |-> cl] :
            st \in {200, 202, 500}, cl \in ContentLocations}

\* Lines 617-641: the envelope for a kick-off response.
start_created_mutant(resp) == resp.status_code \in {200, 202}
start_created(resp) == resp.status_code = 202

start_job_id(content_location) ==
    IF content_location # <<>> THEN Some(last_segment(content_location)) ELSE None

start_result(args, resp) ==
    IF start_created(resp)
    THEN create_success_response(
             [job_id |-> start_job_id(resp.content_location), status |-> "pending",
              polling_url |-> resp.content_location,
              export_type |-> args.export_type, group_id |-> args.group_id])
    ELSE create_error_response("Exception", FALSE, "Bulk export failed")

\* An element of the "output" array of a completed export's manifest.
Output(type, url, count) ==
    [type |-> type, url |-> url, count |-> count, requiresAccessToken |-> TRUE]

Outputs ==
    {<<>>,
     <<Output(Some("Patient"), <<"f1">>, Some(5))>>,
     <<Output(Some("Patient"), <<"f1">>, Some(5)),
       Output(Some("Observation"), <<"f2">>, Some(2))>>,
     <<Output(Some("Patient"), <<>>, None),
       Output(Some("Observation"), <<"f2">>, Some(2))>>}

\* What the server answers a status poll with: the body is a manifest (json), a
\* text that is not JSON, or an error text.
PollResponses ==
    {[transport |-> "error", status_code |-> 0, progress |-> None, json |-> FALSE,
      output |-> <<>>, text |-> ""]}
    \cup {[transport |-> "ok", status_code |-> 202, progress |-> g, json |-> FALSE,
            output |-> <<>>, text |-> ""] : g \in {None, Some("50%")}}
    \cup {[transport |-> "ok", status_code |-> 200, progress |-> None, json |-> TRUE,
            output |-> o, text |-> "manifest"] : o \in Outputs}
    \cup {[transport |-> "ok", status_code |-> 200, progress |-> None, json |-> FALSE,
            output |-> <<>>, text |-> "not json"]}
    \cup {[transport |-> "ok", status_code |-> st, progress |-> None, json |-> FALSE,
            output |-> <<>>, text |-> "boom"] : st \in {404, 503}}

\* Lines 697-703: the file entry made of one output element.
file_entry(output) == [type |-> output.type, url |-> output.url, count |-> output.count]

\* Lines 695-704: one entry per element, in order.
file_entries(outputs) == [i \in 1..Len(outputs) |-> file_entry(outputs[i])]

\* Lines 681-709: the phase a poll response stands for.
status_phase_mutant(status_code) ==
    IF status_code \in {200, 202} THEN "complete" ELSE "error"
status_phase(status_code) ==
    IF status_code = 202 THEN "in-progress"
    ELSE IF status_code = 200 THEN "complete" ELSE "error"

StatusData(job_id, status) ==
    [job_id |-> job_id, status |-> status, progress |-> None, files |-> <<>>,
     error |-> None]

\* Lines 676-716: what fhir_bulk_export_status makes of a poll response: the
\* envelope it returns, or the exception that leaves it.
status_result(job_id, resp) ==
    IF resp.transport # "ok" THEN [outcome |-> "RequestError", value |-> <<>>]
    ELSE LET phase == status_phase(resp.status_code)
             data == StatusData(job_id, phase)
         IN CASE phase = "in-progress" ->
                     [outcome |-> "ok",
                      value |-> create_success_response(
                                    [data EXCEPT !.progress = resp.progress])]
              [] phase = "complete" ->
                     IF resp.json
                     THEN [outcome |-> "ok",
                           value |-> create_success_response(
                                         [data EXCEPT !.files = file_entries(resp.output)])]
                     ELSE [outcome |-> "JSONDecodeError", value |-> <<>>]
              [] OTHER ->
                     [outcome |-> "ok",
                      value |-> create_success_response(
                                    [data EXCEPT !.error = Some(resp.text)])]

ResourceTypes == {None, Some("Patient")}
FileIndexes == {None, Some(-1), Some(0), Some(1), Some(2)}

\* Line 761
filter_type(files, resource_type) ==
    IF resource_type = None THEN files
    ELSE SelectSeq(files, LAMBDA f : f.type = resource_type)

\* Lines 751-755: download goes on only for a complete job.
download_allowed_mutant(status) == status # "error"
download_allowed(status) == status = "complete"

\* Lines 764-771: files[file_index] as Python indexes a list, a negative index
\* counting from the end.
select_index(files, file_index) ==
    LET i == file_index[1]
    IN IF i >= Len(files) THEN [outcome |-> "out of range", files |-> <<>>]
       ELSE IF i >= 0 THEN [outcome |-> "ok", files |-> <<files[i + 1]>>]
       ELSE IF Len(files) + i >= 0
       THEN [outcome |-> "ok", files |-> <<files[Len(files) + i + 1]>>]
       ELSE [outcome |-> "IndexError", files |-> <<>>]

\* Lines 786-788: the loop passes over the entries without a URL.
RECURSIVE skip_no_url(_)
skip_no_url(files) ==
    IF files # <<>> /\ files[1].url = <<>> THEN skip_no_url(Tail(files)) ELSE files

\* What the server answers the request for an output file with: NDJSON lines, ""
\* a blank line and "bad" a line that is not JSON.
FileResponses ==
    {[transport |-> "error", status_code |-> 0, lines |-> <<>>],
     [transport |-> "ok", status_code |-> 404, lines |-> <<>>]}
    \cup {[transport |-> "ok", status_code |-> 200, lines |-> l] :
            l \in {<<>>, <<"r1", "", "r2">>, <<"bad">>}}

\* Lines 795-796
parse_ndjson(lines) == SelectSeq(lines, LAMBDA l : l # "")

CancelResponses ==
    {[transport |-> "error", status_code |-> 0]}
    \cup {[transport |-> "ok", status_code |-> st] : st \in {200, 202, 204, 404, 500}}

\* Line 848
cancelled_mutant(status_code) == status_code \in {200, 204}
cancelled(status_code) == status_code \in {200, 202, 204}

----------------------------------------------------------------------------
\* The code that awaited ensure_authenticated goes on with the Connection.

\* Lines 785-811 of fhir_bulk_export_download: the loop reaches the next file to
\* fetch, or its end.
FetchNext(p, c, conn) ==
    LET files == skip_no_url(c.files)
    IN IF files = <<>>
       THEN Finish(p, c, "ok", conn,
                   create_success_response([job_id |-> c.args.job_id,
                                            files |-> c.downloaded]))
       ELSE Send(p, [c EXCEPT !.files = files], [method |-> "GET", url |-> files[1].url])

Resume(p, c, conn) ==
    CASE c.op = "request" ->
             Send(p, c, [method |-> c.args.method,
                         url |-> request_url(conn.base_url, c.args.path)])
      [] c.op = "fhir_bulk_export_start" ->
             Send(p, c, [method |-> "GET",
                         url |-> export_url(conn.base_url,
                                   export_path(c.args.export_type, c.args.group_id)[1])])
      [] c.op = "fhir_bulk_export_status"
           \/ (c.op = "fhir_bulk_export_download" /\ c.stage = "poll") ->
             Send(p, c, [method |-> "GET",
                         url |-> status_url(conn.base_url, c.args.job_id)])
      [] c.op = "fhir_bulk_export_download" /\ c.stage = "fetch" -> FetchNext(p, c, conn)
      [] c.op = "fhir_bulk_export_cancel" ->
             Send(p, c, [method |-> "DELETE",
                         url |-> status_url(conn.base_url, c.args.job_id)])
      [] OTHER -> Finish(p, c, "ok", conn, <<>>)

\* An exception leaves ensure_authenticated and reaches the code that awaited it.
\* FHIRClient.request lets it through (client.py:144 is outside the try); a tool
\* turns a FHIRError into an error envelope and lets any other exception through.
Raised(p, c, exc, conn) ==
    CASE c.op = "request" -> Finish(p, c, exc, conn, error(exc, FALSE, None, None))
      [] c.op \in BulkTools /\ exc \in FHIRErrors ->
             Finish(p, c, "ok", conn, create_error_response(exc, FALSE, ""))
      [] OTHER -> Finish(p, c, exc, conn, <<>>)

stamp_used(conn, t) == [conn EXCEPT !.last_used_at = Some(t)]

\* ensure_authenticated returns the Connection (object c.obj, as h holds it) to
\* the code that awaited it.
EnsureReturns(p, c, h) ==
    /\ Resume(p, c, h[c.obj])
    /\ heap' = Collect(h, connections, calls')

\* ensure_authenticated raises exc to the code that awaited it.
EnsureRaises(p, c, exc, h) ==
    /\ Raised(p, c, exc, IF c.obj = 0 THEN NoConn ELSE h[c.obj])
    /\ heap' = Collect(h, connections, calls')

\* Lines 237-245: from the lookup to the first await, or to the return.
EnsureEnter(p, c) ==
    IF get(c.cid).outcome # "ok"
    THEN EnsureRaises(p, c, get(c.cid).outcome, heap)
    ELSE LET o == connections[c.cid]
             conn == heap[o]
             c1 == [c EXCEPT !.obj = o,
                             !.entry = [auth |-> conn.auth_result, status |-> conn.status]]
         IN IF needs_refresh(conn, now)
            THEN /\ heap' = [heap EXCEPT ![o] = mark_expired(conn)]
                 /\ calls' = [calls EXCEPT ![p] = [c1 EXCEPT !.pc = "refresh", !.nrefresh = @ + 1]]
                 /\ Quiet
            ELSE EnsureReturns(p, c1, [heap EXCEPT ![o] = stamp_used(conn, now)])

EnsureCall(p, cid) ==
    /\ Starts(p)
    /\ EnsureEnter(p, [IdleCall EXCEPT !.op = "ensure_authenticated", !.cid = cid])
    /\ UNCHANGED <<now, connections>>

\* Lines 245-251: the answer to refresh()'s token request arrives.
RefreshResponse(p, resp) ==
    /\ calls[p].pc = "refresh"
    /\ Answerable(heap[calls[p].obj], resp)
    /\ LET c == calls[p]
           r == refresh(c.entry.auth, resp, now, NewAuth(heap[c.obj]))
           c1 == [c EXCEPT !.refresh_outcome = r.outcome,
                           !.tokens = Append(@, [resp |-> resp, at |-> now])]
       IN IF r.outcome = "ok"
          THEN EnsureReturns(p, c1,
                   [heap EXCEPT ![connection(c)] =
                             stamp_used(assign_auth_result(@, r.result, c.entry), now)])
          ELSE IF falls_back(r.outcome)
          THEN /\ calls' = [calls EXCEPT ![p] =
                               [c1 EXCEPT !.pc = "reauthenticate", !.nauth = @ + 1]]
               /\ Quiet
               /\ UNCHANGED heap
          ELSE EnsureRaises(p, c1, r.outcome, [heap EXCEPT ![c.obj] = raise_leaves(@)])
    /\ UNCHANGED <<now, connections>>

\* Lines 251-255: the answer to the fallback authenticate()'s token request arrives.
ReauthResponse(p, resp) ==
    /\ calls[p].pc = "reauthenticate"
    /\ Answerable(heap[calls[p].obj], resp)
    /\ LET c == calls[p]
           r == authenticate(resp, now, NewAuth(heap[c.obj]))
           c1 == [c EXCEPT !.reauth_outcome = r.outcome,
                           !.tokens = Append(@, [resp |-> resp, at |-> now])]
       IN IF r.outcome = "ok"
          THEN EnsureReturns(p, c1,
                   [heap EXCEPT ![connection(c)] =
                             stamp_used(assign_auth_result(@, r.result, c.entry), now)])
          ELSE EnsureRaises(p, c1, r.outcome, [heap EXCEPT ![c.obj] = raise_leaves(@)])
    /\ UNCHANGED <<now, connections>>

----------------------------------------------------------------------------
\* FHIRClient.request

RequestCall(p, cid, method, path) ==
    /\ Starts(p)
    /\ EnsureEnter(p, [IdleCall EXCEPT !.op = "request", !.cid = cid,
                           !.args = [NoArgs EXCEPT !.method = method, !.path = path]])
    /\ UNCHANGED <<now, connections>>

\* Lines 160-180: the response to the request arrives, or the transport fails.
RequestResponse(p, resp) ==
    /\ calls[p].op = "request" /\ calls[p].pc = "http"
    /\ LET c == [calls[p] EXCEPT !.resps = Append(@, resp)]
           r == request_result(resp)
       IN Finish(p, c, r.outcome, heap[c.obj], r.value)
    /\ heap' = Collect(heap, connections, calls')
    /\ UNCHANGED <<now, connections>>

Client(S) ==
    \/ \E p \in S, cid \in ConnIds, path \in RequestPaths : RequestCall(p, cid, "GET", path)
    \/ \E p \in S, resp \in ClientResponses : RequestResponse(p, resp)

----------------------------------------------------------------------------
\* server.py: the bulk export tools

BulkCall(op, stage, cid, args) ==
    [IdleCall EXCEPT !.op = op, !.stage = stage, !.cid = cid, !.args = args]

\* fhir_bulk_export_start, lines 567-615
StartCall(p, cid, export_type, group_id) ==
    /\ Starts(p)
    /\ LET c == BulkCall("fhir_bulk_export_start", "", cid,
                         [NoArgs EXCEPT !.export_type = export_type,
                                        !.group_id = group_id])
       IN IF export_path(export_type, group_id) = None
          THEN /\ Finish(p, c, "ok", NoConn,
                         create_error_response("ValueError", FALSE, "invalid arguments"))
               /\ UNCHANGED heap
          ELSE EnsureEnter(p, c)
    /\ UNCHANGED <<now, connections>>

\* fhir_bulk_export_start, lines 615-641: the kick-off response arrives.
StartResponse(p, resp) ==
    /\ calls[p].op = "fhir_bulk_export_start" /\ calls[p].pc = "http"
    /\ LET c == [calls[p] EXCEPT !.resps = Append(@, resp)]
           r == start_result(c.args, resp)
       IN IF resp.transport # "ok"
          THEN Finish(p, c, "RequestError", heap[c.obj], <<>>)
          ELSE Finish(p, c, "ok", heap[c.obj], r)
    /\ heap' = Collect(heap, connections, calls')
    /\ UNCHANGED <<now, connections>>

\* fhir_bulk_export_status, lines 661-674
StatusCall(p, cid, job_id) ==
    /\ Starts(p)
    /\ EnsureEnter(p, BulkCall("fhir_bulk_export_status", "", cid,
                               [NoArgs EXCEPT !.job_id = job_id]))
    /\ UNCHANGED <<now, connections>>

\* fhir_bulk_export_status, lines 677-716: the poll response arrives.
StatusResponse(p, resp) ==
    /\ calls[p].op = "fhir_bulk_export_status" /\ calls[p].pc = "http"
    /\ LET c == [calls[p] EXCEPT !.resps = Append(@, resp)]
           r == status_result(c.args.job_id, resp)
       IN Finish(p, c, r.outcome, heap[c.obj], r.value)
    /\ heap' = Collect(heap, connections, calls')
    /\ UNCHANGED <<now, connections>>

\* fhir_bulk_export_cancel, lines 831-841
CancelCall(p, cid, job_id) ==
    /\ Starts(p)
    /\ EnsureEnter(p, BulkCall("fhir_bulk_export_cancel", "", cid,
                               [NoArgs EXCEPT !.job_id = job_id]))
    /\ UNCHANGED <<now, connections>>

\* fhir_bulk_export_cancel, lines 844-856: the response to the DELETE arrives.
CancelResponse(p, resp) ==
    /\ calls[p].op = "fhir_bulk_export_cancel" /\ calls[p].pc = "http"
    /\ LET c == [calls[p] EXCEPT !.resps = Append(@, resp)]
       IN IF resp.transport # "ok"
          THEN Finish(p, c, "RequestError", heap[c.obj], <<>>)
          ELSE Finish(p, c, "ok", heap[c.obj],
                      create_success_response(
                          [job_id |-> c.args.job_id,
                           cancelled |-> cancelled(resp.status_code)]))
    /\ heap' = Collect(heap, connections, calls')
    /\ UNCHANGED <<now, connections>>

\* fhir_bulk_export_download, lines 742-745 and the status tool it calls
DownloadCall(p, cid, job_id, resource_type, file_index) ==
    /\ Starts(p)
    /\ EnsureEnter(p, BulkCall("fhir_bulk_export_download", "poll", cid,
                               [NoArgs EXCEPT !.job_id = job_id,
                                              !.resource_type = resource_type,
                                              !.file_index = file_index]))
    /\ UNCHANGED <<now, connections>>

\* fhir_bulk_export_download, lines 745-784: the status tool's poll is answered;
\* download returns, raises, or goes on to ensure_authenticated a second time.
DownloadPollResponse(p, resp) ==
    /\ calls[p].op = "fhir_bulk_export_download"
    /\ calls[p].stage = "poll" /\ calls[p].pc = "http"
    /\ LET c == [calls[p] EXCEPT !.resps = Append(@, resp)]
           r == status_result(c.args.job_id, resp)
           conn == heap[c.obj]
           Ends(outcome, value) ==
               /\ Finish(p, c, outcome, conn, value)
               /\ heap' = Collect(heap, connections, calls')
       IN IF r.outcome # "ok" THEN Ends(r.outcome, <<>>)
          ELSE IF ~download_allowed(r.value.data.status)
          THEN Ends("ok", create_error_response("Exception", FALSE, "Export not complete"))
          ELSE LET files == filter_type(r.value.data.files, c.args.resource_type)
                   sel == IF c.args.file_index = None
                          THEN [outcome |-> "ok", files |-> files]
                          ELSE select_index(files, c.args.file_index)
               IN IF sel.outcome = "out of range"
                  THEN Ends("ok", create_error_response("ValueError", FALSE,
                                                        "File index out of range"))
                  ELSE IF sel.outcome # "ok" THEN Ends(sel.outcome, <<>>)
                  ELSE EnsureEnter(p, [c EXCEPT !.stage = "fetch", !.pc = "idle",
                                                !.files = sel.files])
    /\ UNCHANGED <<now, connections>>

\* fhir_bulk_export_download, lines 790-811: an output file's response arrives.
DownloadFileResponse(p, resp) ==
    /\ calls[p].op = "fhir_bulk_export_download"
    /\ calls[p].stage = "fetch" /\ calls[p].pc = "http"
    /\ LET c == [calls[p] EXCEPT !.resps = Append(@, resp)]
           file == c.files[1]
           resources == parse_ndjson(resp.lines)
           conn == heap[c.obj]
       IN IF resp.transport # "ok" THEN Finish(p, c, "RequestError", conn, <<>>)
          ELSE IF resp.status_code = 200 /\ \E i \in 1..Len(resources) : resources[i] = "bad"
          THEN Finish(p, c, "JSONDecodeError", conn, <<>>)
          ELSE FetchNext(p,
                   [c EXCEPT !.files = Tail(@),
                             !.downloaded =
                                 IF resp.status_code = 200
                                 THEN Append(@, [type |-> file.type,
                                                 count |-> Len(resources),
                                                 resources |-> resources])
                                 ELSE @],
                   conn)
    /\ heap' = Collect(heap, connections, calls')
    /\ UNCHANGED <<now, connections>>

Bulk(S) ==
    \/ \E p \in S, cid \in ConnIds, t \in ExportTypes, g \in GroupIds : StartCall(p, cid, t, g)
    \/ \E p \in S, resp \in KickoffResponses : StartResponse(p, resp)
    \/ \E p \in S, cid \in ConnIds, j \in JobIds : StatusCall(p, cid, j)
    \/ \E p \in S, resp \in PollResponses : StatusResponse(p, resp)
    \/ \E p \in S, cid \in ConnIds, j \in JobIds : CancelCall(p, cid, j)
    \/ \E p \in S, resp \in CancelResponses : CancelResponse(p, resp)
    \/ \E p \in S, cid \in ConnIds, j \in JobIds, t \in ResourceTypes, i \in FileIndexes :
           DownloadCall(p, cid, j, t, i)
    \/ \E p \in S, resp \in PollResponses : DownloadPollResponse(p, resp)
    \/ \E p \in S, resp \in FileResponses : DownloadFileResponse(p, resp)

----------------------------------------------------------------------------
\* The registry and the request client, one caller at a time

\* S: the slots callers may use; T: the answers the token endpoint may give;
\* I: the connection ids the callers use.
RegistryOf(S, T, I) ==
    \/ Tick
    \/ \E p \in S, cid \in I, b \in BaseUrls, a \in AuthTypes, ok \in BOOLEAN :
           ConnectCall(p, cid, b, a, ok)
    \/ \E p \in S, resp \in T : ConnectAuthResponse(p, resp)
    \/ \E p \in S, cid \in I : Disconnect(p, cid)
    \/ \E p \in S, cid \in I : EnsureCall(p, cid)
    \/ \E p \in S, resp \in T : RefreshResponse(p, resp)
    \/ \E p \in S, resp \in T : ReauthResponse(p, resp)

Registry(S, T) == RegistryOf(S, T, ConnIds)

Next == Registry(One, TokenResponses) \/ Client(One)

Spec == Init /\ [][Next]_vars

\* The registry and the bulk export tools, one caller at a time
\* The token endpoint refuses, or grants a token for one tick or for the default time.
BulkTokenResponses ==
    {resp \in TokenResponses :
        \/ resp.transport = "error"
        \/ resp.status_code = 200 /\ resp.access_token /\ resp.expires_in \in {None, Some(1)}}

BulkNext == Registry(One, BulkTokenResponses) \/ Bulk(One)

BulkSpec == Init /\ [][BulkNext]_vars

\* The same, with the phases reported of the jobs in JobIds followed; the token
\* endpoint refuses, or grants a token for one tick.
JobTokenResponses ==
    {resp \in BulkTokenResponses : resp.transport = "error" \/ resp.expires_in # None}

JobNext == Registry(One, JobTokenResponses) \/ Bulk(One)

JobSpec == JobInit /\ [][JobNext]_vars

\* The registry, the request client and the bulk export tools, one caller at a time
ToolsNext == Registry(One, JobTokenResponses) \/ Client(One) \/ Bulk(One)

ToolsSpec == Init /\ [][ToolsNext]_vars

\* The registry with two callers at a time: a coroutine may begin while another
\* is suspended at an await.
ConcTokenResponses == BulkTokenResponses

ConcNext == Registry(Slots, ConcTokenResponses)

ConcSpec == Init /\ [][ConcNext]_vars

\* The registry with two connection ids, one caller at a time
IdsNext == RegistryOf(One, BulkTokenResponses, AllConnIds)

IdsSpec == Init /\ [][IdsNext]_vars

----------------------------------------------------------------------------
\* cache/memory_cache.py: MemoryCache.  Every operation holds self._lock from its
\* first read to its last write and awaits nothing that suspends, so each is
\* one step.  A key is a sequence of tokens; time.time() is the clock `now`.

enabled == TRUE        \* CacheConfig.enabled
max_size == 2          \* CacheConfig.max_size
ttl_seconds == 300     \* CacheConfig.ttl_seconds
MaxCount == 3          \* the counters _hits + _misses and _evictions stop here

CacheValues == {"v1"}
Ttls == {None, Some(1)}
Patterns == {<<"*">>, <<"a", "*">>, <<"b", "1">>}

\* list.remove(x) after `if x in list`: the first occurrence goes
list_remove(order, key) ==
    IF \E i \in 1..Len(order) : order[i] = key
    THEN LET i == CHOOSE j \in 1..Len(order) :
                      order[j] = key /\ \A h \in 1..(j - 1) : order[h] # key
         IN SubSeq(order, 1, i - 1) \o SubSeq(order, i + 1, Len(order))
    ELSE order

\* the keys of self._cache
cached(mc) == {k \in CacheKeys : mc.cache[k] # None}

\* len(self._cache)
size(mc) == Cardinality(cached(mc))

\* CacheEntry.is_expired
entry_is_expired(entry, t) == t >= entry.expires_at

\* fnmatch.fnmatch(key, pattern), token by token: "*" matches any run of tokens
RECURSIVE fnmatch(_, _)
fnmatch(key, pattern) ==
    IF pattern = <<>> THEN key = <<>>
    ELSE IF Head(pattern) = "*"
         THEN \E n \in 0..Len(key) : fnmatch(SubSeq(key, n + 1, Len(key)), Tail(pattern))
         ELSE key # <<>> /\ Head(key) = Head(pattern) /\ fnmatch(Tail(key), Tail(pattern))

\* MemoryCache._determine_ttl: no key or value of this model names a
\* CapabilityStatement, a ValueSet, metadata or a Bundle
determine_ttl(key, value) == ttl_seconds

\* del self._cache[key], with the key taken out of _access_order
drop(mc, key) ==
    [mc EXCEPT !.cache[key] = None, !.access_order = list_remove(@, key)]

RECURSIVE drop_all(_, _)
drop_all(mc, keys) ==
    IF keys = {} THEN mc
    ELSE LET k == CHOOSE x \in keys : TRUE IN drop_all(drop(mc, k), keys \ {k})

\* MemoryCache._evict_oldest
evict_oldest_mutant(mc) ==
    IF mc.access_order # <<>>
    THEN LET oldest_key == Head(mc.access_order)
         IN [mc EXCEPT !.access_order = Tail(@), !.cache[oldest_key] = None]
    ELSE mc

evict_oldest(mc) ==
    IF mc.access_order # <<>>
    THEN LET oldest_key == Head(mc.access_order)
             popped == [mc EXCEPT !.access_order = Tail(@)]
         IN IF mc.cache[oldest_key] # None
            THEN [popped EXCEPT !.cache[oldest_key] = None, !.evictions = @ + 1]
            ELSE popped
    ELSE mc

\* the condition of set's loop: while len(self._cache) >= self._config.max_size
must_evict_mutant(mc) == size(mc) > max_size

must_evict(mc) == size(mc) >= max_size

\* the loop never ends once _access_order is empty and the cache still full
spins(mc) == must_evict(mc) /\ mc.access_order = <<>>

\* the loop in set, run to its end
RECURSIVE make_room(_)
make_room(mc) ==
    IF must_evict(mc) /\ mc.access_order # <<>> THEN make_room(evict_oldest(mc)) ELSE mc

\* self._cache[key] = entry, and the key moved to the end of _access_order
store(mc, key, value, ttl, t) ==
    [mc EXCEPT !.cache[key] = Some([value |-> value, expires_at |-> t + ttl,
                                    created_at |-> t]),
               !.access_order = Append(list_remove(@, key), key)]

CacheQuiet ==
    /\ UNCHANGED now /\ UNCHANGED core
    /\ UNCHANGED <<webhook, hook_call, hook_last, audit, audit_hist, ws, ws_last>>

\* MemoryCache.get
CacheGet(key) ==
    /\ memory_cache.hits + memory_cache.misses < MaxCount
    /\ LET entry == memory_cache.cache[key]
           result ==
               IF ~enabled THEN [mc |-> memory_cache, value |-> None]
               ELSE IF entry = None
               THEN [mc |-> [memory_cache EXCEPT !.misses = @ + 1], value |-> None]
               ELSE IF entry_is_expired(entry[1], now)
               THEN [mc |-> [drop(memory_cache, key) EXCEPT !.misses = @ + 1],
                     value |-> None]
               ELSE [mc |-> [memory_cache EXCEPT
                                !.access_order = Append(list_remove(@, key), key),
                                !.hits = @ + 1],
                     value |-> Some(entry[1].value)]
       IN /\ memory_cache' = result.mc
          /\ cache_last' = [op |-> "get", key |-> Some(key), evicted |-> {}, value |-> result.value]
    /\ CacheQuiet

\* MemoryCache.set
CacheSet(key, value, ttl) ==
    /\ memory_cache.evictions < MaxCount
    /\ ~spins(make_room(memory_cache))
    /\ LET t == IF ttl = None THEN determine_ttl(key, value) ELSE ttl[1]
           room == IF enabled THEN make_room(memory_cache) ELSE memory_cache
       IN /\ memory_cache' = IF enabled THEN store(room, key, value, t, now)
                             ELSE memory_cache
          /\ cache_last' = [op |-> "set", key |-> Some(key),
                            evicted |-> cached(memory_cache) \ cached(room),
                            value |-> None]
    /\ CacheQuiet

\* MemoryCache.delete
CacheDelete(key) ==
    /\ memory_cache' = IF memory_cache.cache[key] # None THEN drop(memory_cache, key)
                       ELSE memory_cache
    /\ cache_last' = [op |-> "delete", key |-> Some(key), evicted |-> {},
                      value |-> Some(memory_cache.cache[key] # None)]
    /\ CacheQuiet

\* MemoryCache.invalidate
CacheInvalidate(pattern) ==
    /\ LET keys_to_delete == {k \in cached(memory_cache) : fnmatch(k, pattern)}
       IN /\ memory_cache' = drop_all(memory_cache, keys_to_delete)
          /\ cache_last' = [op |-> "invalidate", key |-> Some(pattern),
                            evicted |-> {},
                            value |-> Some(Cardinality(keys_to_delete))]
    /\ CacheQuiet

\* MemoryCache.clear
CacheClear ==
    /\ memory_cache' = [memory_cache EXCEPT !.cache = [k \in CacheKeys |-> None],
                                            !.access_order = <<>>]
    /\ cache_last' = [op |-> "clear", key |-> None, evicted |-> {}, value |-> None]
    /\ CacheQuiet

\* MemoryCache.cleanup_expired
CacheCleanupExpired ==
    /\ LET expired_keys == {k \in cached(memory_cache) :
                                entry_is_expired(memory_cache.cache[k][1], now)}
       IN /\ memory_cache' = drop_all(memory_cache, expired_keys)
          /\ cache_last' = [op |-> "cleanup_expired", key |-> None,
                            evicted |-> {},
                            value |-> Some(Cardinality(expired_keys))]
    /\ CacheQuiet

\* time passes for the cache
CacheTick ==
    /\ now < MaxTime
    /\ now' = now + 1
    /\ cache_last' = NoCacheLast
    /\ UNCHANGED <<memory_cache, connections, heap, calls, last, reported>>
    /\ UNCHANGED <<webhook, hook_call, hook_last, audit, audit_hist, ws, ws_last>>

CacheNext ==
    \/ CacheTick
    \/ \E key \in CacheKeys : CacheGet(key)
    \/ \E key \in CacheKeys, value \in CacheValues, ttl \in Ttls : CacheSet(key, value, ttl)
    \/ \E key \in CacheKeys : CacheDelete(key)
    \/ \E pattern \in Patterns : CacheInvalidate(pattern)
    \/ CacheClear
    \/ CacheCleanupExpired

CacheSpec == Init /\ [][CacheNext]_vars

----------------------------------------------------------------------------
\* subscriptions/handlers.py: WebhookHandler.  register_callback and
\* unregister_callback are plain functions; handle_notification is a coroutine
\* that is suspended while a callback's coroutine is awaited.

MaxCallbacks == 3      \* the length _callbacks may reach

\* the callbacks: a function that returns, a function that raises, and a
\* coroutine function, whose coroutine suspends before it returns or raises;
\* what a callback raises is caught and logged
Callbacks == {"f", "g", "h"}
is_coroutine_function(cb) == cb = "h"
EventTypes == {"handshake", "heartbeat", "event-notification"}

\* `for callback in self._callbacks`, from the iterator's position idx up to the
\* first callback that has to be awaited, or to the end of the list as it is now
RECURSIVE run_callbacks(_, _, _)
run_callbacks(callbacks, idx, delivered) ==
    IF idx >= Len(callbacks)
    THEN [pc |-> "done", idx |-> idx, delivered |-> delivered]
    ELSE LET callback == callbacks[idx + 1]
         IN IF is_coroutine_function(callback)
            THEN [pc |-> "await", idx |-> idx + 1, delivered |-> Append(delivered, callback)]
            ELSE run_callbacks(callbacks, idx + 1, Append(delivered, callback))

HookQuiet ==
    /\ UNCHANGED now /\ UNCHANGED core
    /\ UNCHANGED <<memory_cache, cache_last, audit, audit_hist, ws, ws_last>>

\* the loop has run on from the call c: it is suspended again, or the call ends
HookRuns(c, ran) ==
    IF ran.pc = "await"
    THEN /\ hook_call' = [c EXCEPT !.pc = "await", !.idx = ran.idx,
                                   !.delivered = ran.delivered]
         /\ hook_last' = NoHookLast
    ELSE /\ hook_call' = NoHookCall
         /\ hook_last' = [op |-> "handle_notification", event_type |-> c.event_type,
                          at_call |-> c.at_call, delivered |-> ran.delivered,
                          gone |-> c.gone, came |-> c.came]

\* WebhookHandler.register_callback
RegisterCallback(callback) ==
    /\ Len(webhook.callbacks) < MaxCallbacks
    /\ webhook' = [webhook EXCEPT !.callbacks = Append(@, callback)]
    /\ hook_call' = IF hook_call.pc = "await"
                    THEN [hook_call EXCEPT !.came = @ \cup {callback}] ELSE hook_call
    /\ hook_last' = NoHookLast
    /\ HookQuiet

\* WebhookHandler.unregister_callback
UnregisterCallback(callback) ==
    /\ webhook' = [webhook EXCEPT !.callbacks = list_remove(@, callback)]
    /\ hook_call' = IF hook_call.pc = "await"
                    THEN [hook_call EXCEPT !.gone = @ \cup {callback}] ELSE hook_call
    /\ hook_last' = NoHookLast
    /\ HookQuiet

\* WebhookHandler.handle_notification, up to its first await or to its end
HandleNotification(event_type) ==
    /\ hook_call.pc = "idle"
    /\ LET c == [NoHookCall EXCEPT !.event_type = event_type,
                                   !.at_call = webhook.callbacks]
       IN IF event_type = "handshake"
          THEN HookRuns(c, [pc |-> "done", idx |-> 0, delivered |-> <<>>])
          ELSE HookRuns(c, run_callbacks(webhook.callbacks, 0, <<>>))
    /\ UNCHANGED webhook
    /\ HookQuiet

\* the awaited callback returns, or raises an exception that is logged: the loop
\* goes on either way
CallbackEnds ==
    /\ hook_call.pc = "await"
    /\ HookRuns(hook_call, run_callbacks(webhook.callbacks, hook_call.idx, hook_call.delivered))
    /\ UNCHANGED webhook
    /\ HookQuiet

\* WebhookHandler.start
HookStart ==
    /\ webhook' = [webhook EXCEPT !.running = TRUE]
    /\ hook_last' = NoHookLast
    /\ UNCHANGED hook_call
    /\ HookQuiet

\* WebhookHandler.stop
HookStop ==
    /\ webhook' = [webhook EXCEPT !.running = FALSE]
    /\ hook_last' = NoHookLast
    /\ UNCHANGED hook_call
    /\ HookQuiet

HookNext ==
    \/ \E callback \in Callbacks : RegisterCallback(callback)
    \/ \E callback \in Callbacks : UnregisterCallback(callback)
    \/ \E event_type \in EventTypes : HandleNotification(event_type)
    \/ CallbackEnds
    \/ HookStart
    \/ HookStop

HookSpec == Init /\ [][HookNext]_vars

----------------------------------------------------------------------------
\* audit/logger.py: AuditLogger with async logging.  The worker is suspended in
\* queue.get() and in the executor's file write; stop() is suspended in
\* queue.join() and in `await self._task`.

MaxEvents == 3         \* the events log() is called with

AuditQuiet ==
    /\ UNCHANGED now /\ UNCHANGED core
    /\ UNCHANGED <<memory_cache, cache_last, webhook, hook_call, hook_last, ws, ws_last>>

Unreturned == [audit_hist EXCEPT !.returned = FALSE]

\* AuditLogger.start; it is not called while a stop() is in flight
AuditStart ==
    /\ audit.stop_pc = "idle"
    /\ audit' = IF audit.running THEN audit
                ELSE [audit EXCEPT !.running = TRUE, !.task = TRUE,
                                   !.worker = "created", !.cancel = FALSE]
    /\ audit_hist' = Unreturned
    /\ AuditQuiet

\* AuditLogger.log: queue.put on the unbounded queue
AuditLog ==
    /\ audit_hist.accepted < MaxEvents
    /\ audit' = [audit EXCEPT !.queue = Append(@, audit_hist.accepted + 1),
                              !.unfinished = @ + 1]
    /\ audit_hist' = [Unreturned EXCEPT !.accepted = @ + 1]
    /\ AuditQuiet

\* `while self._running`, and on to the await of queue.get()
worker_loops(running) == IF running THEN "get" ELSE "done"

\* AuditLogger._worker begins to run
WorkerBegins ==
    /\ audit.worker = "created" /\ ~audit.cancel
    /\ audit' = [audit EXCEPT !.worker = worker_loops(audit.running)]
    /\ audit_hist' = Unreturned
    /\ AuditQuiet

\* queue.get() returns an event: the worker goes on to write it
WorkerGets ==
    /\ audit.worker = "get" /\ ~audit.cancel
    /\ audit.queue # <<>>
    /\ audit' = [audit EXCEPT !.event = Some(Head(audit.queue)), !.queue = Tail(@),
                              !.worker = "write"]
    /\ audit_hist' = Unreturned
    /\ AuditQuiet

\* wait_for times out on the empty queue: TimeoutError, continue
WorkerTimesOut ==
    /\ audit.worker = "get" /\ ~audit.cancel
    /\ audit.queue = <<>>
    /\ audit' = [audit EXCEPT !.worker = worker_loops(audit.running)]
    /\ audit_hist' = Unreturned
    /\ AuditQuiet

\* the file write ends (a failure is logged and the event is lost); task_done,
\* and the loop goes round
WorkerWrites(ok) ==
    /\ audit.worker = "write" /\ ~audit.cancel
    /\ audit' = [audit EXCEPT !.written = IF ok THEN Append(@, audit.event[1]) ELSE @,
                              !.lost = IF ok THEN @ ELSE @ \cup {audit.event[1]},
                              !.event = None,
                              !.unfinished = @ - 1,
                              !.worker = worker_loops(audit.running)]
    /\ audit_hist' = Unreturned
    /\ AuditQuiet

\* CancelledError is raised where the worker is suspended; it is no Exception,
\* so the task ends cancelled
WorkerCancelled ==
    /\ audit.cancel /\ audit.worker \in {"created", "get", "write"}
    /\ audit' = [audit EXCEPT !.worker = "cancelled", !.event = None]
    /\ audit_hist' = Unreturned
    /\ AuditQuiet

\* self._task.cancel(), and on to `await self._task`
task_cancel(a) ==
    [a EXCEPT !.cancel = a.worker \in {"created", "get", "write"},
              !.stop_pc = "await_task"]

\* AuditLogger.stop, up to its first await or to its return
AuditStop ==
    /\ audit.stop_pc = "idle"
    /\ LET a == [audit EXCEPT !.running = FALSE]
       IN IF ~audit.task
          THEN /\ audit' = a
               /\ audit_hist' = [audit_hist EXCEPT !.at_stop = audit_hist.accepted,
                                                   !.started = FALSE,
                                                   !.returned = TRUE]
          ELSE /\ audit' = IF audit.unfinished > 0 THEN [a EXCEPT !.stop_pc = "join"]
                           ELSE task_cancel(a)
               /\ audit_hist' = [Unreturned EXCEPT !.at_stop = audit_hist.accepted,
                                                  !.started = TRUE]
    /\ AuditQuiet

\* queue.join() returns: every item was marked task_done
StopJoined ==
    /\ audit.stop_pc = "join"
    /\ audit.unfinished = 0
    /\ audit' = task_cancel(audit)
    /\ audit_hist' = Unreturned
    /\ AuditQuiet

\* `await self._task` ends: the task is done or cancelled; stop() returns
StopReturns ==
    /\ audit.stop_pc = "await_task"
    /\ audit.worker \in {"done", "cancelled"}
    /\ audit' = [audit EXCEPT !.task = FALSE, !.worker = "", !.cancel = FALSE,
                              !.stop_pc = "idle"]
    /\ audit_hist' = [audit_hist EXCEPT !.returned = TRUE]
    /\ AuditQuiet

AuditNext ==
    \/ AuditStart
    \/ AuditLog
    \/ WorkerBegins
    \/ WorkerGets
    \/ WorkerTimesOut
    \/ \E ok \in BOOLEAN : WorkerWrites(ok)
    \/ WorkerCancelled
    \/ AuditStop
    \/ StopJoined
    \/ StopReturns

\* The event loop runs every task that is ready and the executor ends every
\* write, so no step of the worker or of stop() that can be taken waits for ever.
AuditFairness ==
    /\ WF_vars(WorkerBegins)
    /\ WF_vars(WorkerGets)
    /\ WF_vars(WorkerTimesOut)
    /\ WF_vars(\E ok \in BOOLEAN : WorkerWrites(ok))
    /\ WF_vars(WorkerCancelled)
    /\ WF_vars(StopJoined)
    /\ WF_vars(StopReturns)

AuditSpec == Init /\ [][AuditNext]_vars /\ AuditFairness

----------------------------------------------------------------------------
\* subscriptions/websocket.py: WebSocketManager.  A _connection_loop is suspended
\* while it opens the websocket, while it waits for a message and while it
\* sleeps before it reconnects; disconnect() is suspended while it awaits the
\* cancelled task and while it closes the websocket.

max_reconnect_attempts == 2    \* WebSocketManager._max_reconnect

WsQuiet ==
    /\ UNCHANGED now /\ UNCHANGED core
    /\ UNCHANGED <<memory_cache, cache_last, webhook, hook_call, hook_last, audit, audit_hist>>

\* the positions at which a task is suspended or waits to begin
Pending == {"created", "connecting", "receiving", "sleeping"}

\* `while conn.subscription_id in self._connections`, and on to the await in
\* websockets.connect
loop_goes_on(a, subscription_id) ==
    IF a.connections[subscription_id] # 0 THEN "connecting" ELSE "done"

\* a step of loop k: the manager with the loop's new fields
WsLoopStep(k, loop, op) ==
    /\ ws' = [ws EXCEPT !.loops[k] = loop]
    /\ ws_last' = IF op = "" THEN NoWsLast
                  ELSE [op |-> op, subscription_id |-> loop.subscription_id, loop |-> k]
    /\ WsQuiet

\* WebSocketManager.connect
WsConnect(subscription_id) ==
    /\ \E k \in Loops : ws.loops[k].pc = ""
    /\ LET k == CHOOSE j \in Loops :
                    ws.loops[j].pc = "" /\ \A i \in Loops : ws.loops[i].pc = "" => j <= i
       IN ws' = [ws EXCEPT !.connections[subscription_id] = k,
                           !.tasks[subscription_id] = k,
                           !.loops[k] = [NoLoop EXCEPT !.subscription_id = subscription_id,
                                                       !.pc = "created"]]
    /\ ws_last' = NoWsLast
    /\ WsQuiet

\* _connection_loop begins to run
LoopBegins(k) ==
    /\ ws.loops[k].pc = "created" /\ ~ws.loops[k].cancel
    /\ WsLoopStep(k, [ws.loops[k] EXCEPT !.pc = loop_goes_on(ws, ws.loops[k].subscription_id)], "")

\* the except branch of _connection_loop: one more failed attempt, then the
\* sleep, or the end of the loop
loop_fails(loop) ==
    [loop EXCEPT !.connected = FALSE, !.reconnect_attempts = @ + 1,
                 !.pc = IF loop.reconnect_attempts + 1 >= max_reconnect_attempts
                        THEN "done" ELSE "sleeping"]

\* websockets.connect ends: the websocket is open, or an exception
LoopConnects(k, ok) ==
    /\ ws.loops[k].pc = "connecting" /\ ~ws.loops[k].cancel
    /\ IF ok
       THEN WsLoopStep(k, [ws.loops[k] EXCEPT !.websocket = TRUE, !.connected = TRUE,
                                              !.reconnect_attempts = 0,
                                              !.pc = "receiving"], "connected")
       ELSE WsLoopStep(k, loop_fails(ws.loops[k]), "")

\* _receive_loop: a notification Bundle arrives and goes to the callbacks
LoopDelivers(k) ==
    /\ ws.loops[k].pc = "receiving" /\ ~ws.loops[k].cancel
    /\ WsLoopStep(k, ws.loops[k], "delivered")

\* the websocket ends: closed by the server (the while loop goes round), or
\* with an exception
LoopLosesSocket(k, closed) ==
    /\ ws.loops[k].pc = "receiving" /\ ~ws.loops[k].cancel
    /\ IF closed
       THEN WsLoopStep(k, [ws.loops[k] EXCEPT
                               !.pc = loop_goes_on(ws, ws.loops[k].subscription_id)], "")
       ELSE WsLoopStep(k, loop_fails(ws.loops[k]), "")

\* asyncio.sleep(self._reconnect_delay) ends
LoopWakes(k) ==
    /\ ws.loops[k].pc = "sleeping" /\ ~ws.loops[k].cancel
    /\ WsLoopStep(k, [ws.loops[k] EXCEPT !.pc = loop_goes_on(ws, ws.loops[k].subscription_id)], "")

\* CancelledError where the task is suspended: `break`, the task ends
LoopCancelled(k) ==
    /\ ws.loops[k].pc \in Pending /\ ws.loops[k].cancel
    /\ WsLoopStep(k, [ws.loops[k] EXCEPT !.pc = "done", !.cancel = FALSE], "")

\* disconnect() from `del self._tasks[subscription_id]` on: to the await of
\* websocket.close(), or to the return
disconnect_goes_on(a, subscription_id) ==
    LET a1 == [a EXCEPT !.tasks[subscription_id] = 0]
        conn == a1.connections[subscription_id]
    IN IF conn # 0 /\ a1.loops[conn].websocket
       THEN [a1 EXCEPT !.disc = [NoDisc EXCEPT !.pc = "closing",
                                              !.subscription_id = subscription_id]]
       ELSE [a1 EXCEPT !.connections[subscription_id] = 0, !.disc = NoDisc]

WsDisconnectStep(a, subscription_id) ==
    /\ ws' = a
    /\ ws_last' = IF a.disc.pc = "idle"
                  THEN [op |-> "disconnect", subscription_id |-> subscription_id, loop |-> 0]
                  ELSE NoWsLast
    /\ WsQuiet

\* WebSocketManager.disconnect, up to its first await or to its return
WsDisconnect(subscription_id) ==
    /\ ws.disc.pc = "idle"
    /\ LET task == ws.tasks[subscription_id]
       IN IF task # 0 /\ ws.loops[task].pc \in Pending
          THEN WsDisconnectStep(
                   [ws EXCEPT !.loops[task].cancel = TRUE,
                              !.disc = [pc |-> "await_task",
                                        subscription_id |-> subscription_id,
                                        task |-> task]], subscription_id)
          ELSE WsDisconnectStep(disconnect_goes_on(ws, subscription_id), subscription_id)

\* `await task` ends: the cancelled task is done
DisconnectTaskEnded ==
    /\ ws.disc.pc = "await_task"
    /\ ws.loops[ws.disc.task].pc = "done"
    /\ WsDisconnectStep(disconnect_goes_on(ws, ws.disc.subscription_id),
                        ws.disc.subscription_id)

\* `await conn.websocket.close()` ends
DisconnectClosed ==
    /\ ws.disc.pc = "closing"
    /\ WsDisconnectStep([ws EXCEPT !.connections[ws.disc.subscription_id] = 0,
                                   !.disc = NoDisc], ws.disc.subscription_id)

WsNext ==
    \/ \E subscription_id \in SubIds : WsConnect(subscription_id)
    \/ \E k \in Loops : LoopBegins(k)
    \/ \E k \in Loops, ok \in BOOLEAN : LoopConnects(k, ok)
    \/ \E k \in Loops : LoopDelivers(k)
    \/ \E k \in Loops, closed \in BOOLEAN : LoopLosesSocket(k, closed)
    \/ \E k \in Loops : LoopWakes(k)
    \/ \E k \in Loops : LoopCancelled(k)
    \/ \E subscription_id \in SubIds : WsDisconnect(subscription_id)
    \/ DisconnectTaskEnded
    \/ DisconnectClosed

WsSpec == Init /\ [][WsNext]_vars

----------------------------------------------------------------------------
\* Claims.  `last` describes the operation that ended in the step leading to the
\* state at hand, so heap, connections and now are those its caller finds.

\* The expiry test of AuthResult.is_expired, spelled out on the recorded values.
Unexpired(a) == a # NoAuth /\ (a.expires_at = None \/ now < a.expires_at[1])

\* C1: a connect whose initial authentication fails raises the failure and
\* registers nothing: the registry's entry for the id is what it was, a lookup of an
\* id that was absent still raises FHIRConnectionError, and no listed connection
\* is in status error or disconnected.
C1_FailedConnectRegistersNothing ==
    /\ \A conn \in list_connections : conn.status \notin {"error", "disconnected"}
    /\ (last.op = "connect" /\ last.nauth = 1 /\ last.outcome # "ok") =>
           /\ last.outcome \in {"FHIRAuthError", "KeyError"}
           /\ connections[last.cid] = last.reg_before
           /\ (last.reg_before = 0 => get(last.cid).outcome = "FHIRConnectionError")

C1_Witness ==
    /\ last.op = "connect" /\ last.outcome = "FHIRAuthError"
    /\ last.conn.status = "error"
    /\ last.reg_before = 0 /\ get(last.cid).outcome = "FHIRConnectionError"

\* C2: ensure_authenticated on a connection whose AuthResult is not expired makes
\* no token request (neither refresh nor authenticate) and returns the connection
\* with the same AuthResult instance and the status it had.
C2_UnexpiredNoNetworkCall ==
    (last.op = "ensure_authenticated" /\ Unexpired(last.entry.auth)) =>
        /\ last.outcome = "ok"
        /\ last.nrefresh = 0 /\ last.nauth = 0
        /\ last.conn.auth_result = last.entry.auth
        /\ last.conn.status = last.entry.status

C2_Witness ==
    /\ last.op = "ensure_authenticated" /\ last.outcome = "ok"
    /\ Unexpired(last.entry.auth) /\ last.nrefresh = 0
    /\ last.conn.auth_result = last.entry.auth

\* C3: when the token is expired, refresh fails and the full authenticate that
\* follows succeeds, ensure_authenticated returns normally, the connection is in
\* status connected and holds a new AuthResult in place of the expired one.
C3_FallbackReauthenticates ==
    (last.op = "ensure_authenticated"
        /\ last.refresh_outcome \notin {"", "ok"} /\ last.reauth_outcome = "ok") =>
        /\ last.outcome = "ok"
        /\ last.conn.status = "connected"
        /\ last.conn.auth_result # NoAuth
        /\ last.conn.auth_result.id # last.entry.auth.id
        /\ get(last.cid) = [outcome |-> "ok", conn |-> last.conn]

C3_Witness ==
    /\ last.op = "ensure_authenticated" /\ last.outcome = "ok"
    /\ last.refresh_outcome = "FHIRAuthError" /\ last.reauth_outcome = "ok"
    /\ last.nrefresh = 1 /\ last.nauth = 1
    /\ last.conn.status = "connected"

\* C4: when refresh and the fallback authenticate both fail, ensure_authenticated
\* raises the error, and the connection stays registered, in status token_expired,
\* with the expired AuthResult it had.
C4_BothFailLeavesTokenExpired ==
    (last.op = "ensure_authenticated"
        /\ last.refresh_outcome \notin {"", "ok"} /\ last.reauth_outcome \notin {"", "ok"}) =>
        /\ last.outcome = last.reauth_outcome
        /\ connections[last.cid] = last.obj
        /\ heap[last.obj].status = "token_expired"
        /\ heap[last.obj].auth_result = last.entry.auth
        /\ ~Unexpired(last.entry.auth)

C4_Witness ==
    /\ last.op = "ensure_authenticated" /\ last.outcome = "FHIRAuthError"
    /\ last.refresh_outcome = "FHIRAuthError" /\ last.reauth_outcome = "FHIRAuthError"
    /\ heap[last.obj].status = "token_expired"

\* C5: whenever ensure_authenticated returns normally, the connection it returns
\* is authenticated at that moment: it has an AuthResult and it is not expired.
C5_ReturnedConnectionIsAuthenticated ==
    (last.op = "ensure_authenticated" /\ last.outcome = "ok") => Unexpired(last.conn.auth_result)

\* C6: bulk export download fetches an output file only for a job whose status
\* is complete: when its poll of the job shows in-progress (202) or error (any
\* status but 200 and 202), download returns an error envelope and issues no
\* request but that poll; and a download that has asked for an output file, ended
\* or still in flight, has seen the job complete.
C6_DownloadOnlyWhenComplete ==
    /\ (last.op = "fhir_bulk_export_download" /\ last.resps # <<>>
           /\ last.resps[1].transport = "ok" /\ last.resps[1].status_code # 200) =>
           /\ last.outcome = "ok" /\ ~last.value.success
           /\ Len(last.reqs) = 1
    /\ (last.op = "fhir_bulk_export_download" /\ Len(last.reqs) > 1) =>
           last.resps[1].status_code = 200
    /\ \A p \in Slots :
           (calls[p].op = "fhir_bulk_export_download" /\ Len(calls[p].reqs) > 1) =>
               calls[p].resps[1].status_code = 200

C6_Witness ==
    /\ last.op = "fhir_bulk_export_download" /\ last.outcome = "ok"
    /\ Len(last.resps) = 1 /\ last.resps[1].status_code = 202
    /\ ~last.value.success /\ last.value.message = "Export not complete"
    /\ Len(last.reqs) = 1

\* C7: a bulk export job is terminal once its phase is complete, error or
\* cancelled: after a status poll or a cancel has reported one of these phases of
\* a job, no later status poll or cancel reports a different phase of it.
C7_TerminalPhaseIsFinal ==
    [][\A j \in JobIds :
          (reported[j] \in {"complete", "error", "cancelled"}
              /\ last'.op \in {"fhir_bulk_export_status", "fhir_bulk_export_cancel"}) =>
              reported'[j] = reported[j]]_vars

\* C8: bulk export start reports a created job only when the kick-off response
\* is 202 with a Content-Location header: then the job id is the last path segment
\* of the header, the phase is pending and the kick-off is the only request made;
\* every other kick-off response is reported as a failure.
C8_StartCreatesJobOnlyWithLocation ==
    (last.op = "fhir_bulk_export_start" /\ last.resps # <<>>
        /\ last.resps[1].transport = "ok") =>
        /\ last.outcome = "ok"
        /\ IF last.resps[1].status_code = 202 /\ last.resps[1].content_location # <<>>
           THEN /\ last.value.success
                /\ last.value.data.job_id = Some(last_segment(last.resps[1].content_location))
                /\ last.value.data.status = "pending"
                /\ Len(last.reqs) = 1
           ELSE ~last.value.success

\* C9: bulk export status maps the poll response: 202 gives in-progress, 200 gives
\* complete with one file entry (type, url, count) per element of the output
\* array, in order, and any other status gives error with the raw body kept; and
\* a poll answered 200 that follows a report of in-progress reports complete.
C9_StatusMapsPollResponse ==
    /\ [](  (last.op = "fhir_bulk_export_status" /\ last.resps # <<>>
               /\ last.resps[1].transport = "ok") =>
            LET r == last.resps[1]
                d == last.value.data
            IN /\ r.status_code = 202 =>
                     last.outcome = "ok" /\ last.value.success /\ d.status = "in-progress"
               /\ (r.status_code = 200 /\ r.json) =>
                     /\ last.outcome = "ok" /\ last.value.success /\ d.status = "complete"
                     /\ Len(d.files) = Len(r.output)
                     /\ \A i \in 1..Len(r.output) :
                            d.files[i] = [type |-> r.output[i].type, url |-> r.output[i].url,
                                          count |-> r.output[i].count]
               /\ r.status_code \notin {200, 202} =>
                     /\ last.outcome = "ok" /\ last.value.success /\ d.status = "error"
                     /\ d.error = Some(r.text))
    /\ [][\A j \in JobIds :
            (reported[j] = "in-progress" /\ last'.op = "fhir_bulk_export_status"
                /\ last'.args.job_id = j /\ last'.resps # <<>>
                /\ last'.resps[1].status_code = 200 /\ last'.resps[1].json) =>
                (last'.outcome = "ok" /\ last'.value.data.status = "complete"
                    /\ reported'[j] = "complete")]_vars

C9_Witness ==
    /\ last.op = "fhir_bulk_export_status" /\ last.outcome = "ok"
    /\ Len(last.resps) = 1
    /\ last.resps[1].status_code = 200 /\ Len(last.resps[1].output) = 2
    /\ last.value.data.status = "complete" /\ Len(last.value.data.files) = 2
    /\ reported[last.args.job_id] = "complete"

\* C10: the request client maps the response status to a typed failure: 401 to
\* FHIRAuthError in its expired variant, 403 to FHIRAuthError not expired, 404 to
\* FHIRResourceNotFoundError, 429 to FHIRRateLimitError carrying the Retry-After
\* value when the header is present, every 5xx to FHIRServerError, and a 2xx
\* returns the parsed body.
C10_StatusMapsToTypedFailure ==
    (last.op = "request" /\ last.resps # <<>> /\ last.resps[1].transport = "ok") =>
        LET r == last.resps[1]
            st == r.status_code
        IN /\ st = 401 => last.outcome = "FHIRAuthError" /\ last.value.expired
           /\ st = 403 => last.outcome = "FHIRAuthError" /\ ~last.value.expired
           /\ st = 404 => last.outcome = "FHIRResourceNotFoundError"
           /\ st = 429 =>
                 /\ last.outcome = "FHIRRateLimitError"
                 /\ r.retry_after # None => last.value.retry_after_seconds # None
                 /\ (r.retry_after # None /\ IsInt(r.retry_after[1])) =>
                        last.value.retry_after_seconds[1] = int(r.retry_after[1])
           /\ st >= 500 => last.outcome = "FHIRServerError"
           /\ (is_success(st) /\ r.content # "not json") =>
                 /\ last.outcome = "ok"
                 /\ last.value = IF r.content = "" THEN "{}" ELSE r.content

\* C11: the request client returns a body (the parsed body, or the empty object
\* for an empty one) only for a 2xx response; every response with another status,
\* the 4xx codes other than 401, 403, 404 and 429 included, ends in a typed
\* failure (a FHIRError) and never in a normal return.
C11_OnlySuccessReturns ==
    (last.op = "request" /\ last.resps # <<>> /\ last.resps[1].transport = "ok") =>
        LET st == last.resps[1].status_code
        IN /\ last.outcome = "ok" => is_success(st)
           /\ ~is_success(st) => last.outcome \in FHIRErrors

\* C12: every failure inside a tool call is returned to the caller as an error
\* envelope (success false, an error code, a message, the recoverable flag) and no
\* exception leaves the tool: fhir_connect turns whatever connect raised into an
\* envelope, and each bulk export tool returns an envelope, an error envelope
\* when a request of its own met a transport failure.
C12_NoExceptionEscapesTool ==
    /\ last.op = "connect" =>
           LET e == fhir_connect(last.outcome, last.conn)
           IN /\ e.success = (last.outcome = "ok")
              /\ ~e.success => e.code # ""
    /\ last.op \in BulkTools =>
           /\ last.outcome = "ok"
           /\ last.value.success \in BOOLEAN
           /\ ~last.value.success => last.value.code # ""
           /\ (\E i \in 1..Len(last.resps) : last.resps[i].transport # "ok") =>
                  ~last.value.success

\* C13: a Connection is visible through get and list_connections only after its
\* initial authenticate has succeeded.  Every listed connection holds an AuthResult
\* and was stored in status connected; the registry changes only in the step in
\* which a connect returns or a disconnect runs, so that a lookup made while a
\* connect awaits authentication (here that of an ensure_authenticated that needs
\* no refresh) sees the prior entry or raises FHIRConnectionError; and
\* a connect that returns has stored its own Connection, in status connected and
\* with its first AuthResult, in place of whatever the id held: of concurrent
\* connects on one id the one that registers last is the one get shows.
C13_VisibleOnlyAfterAuthenticate ==
    /\ [](
          /\ \A conn \in list_connections :
                 /\ conn.auth_result # NoAuth
                 /\ conn.status \in {"connected", "token_expired"}
          /\ (last.op = "connect" /\ last.outcome = "ok") =>
                 /\ last.conn.status = "connected"
                 /\ last.conn.auth_result # NoAuth /\ last.conn.auth_result.id = 1
                 /\ last.conn.last_used_at = None
                 /\ connections[last.cid] = last.obj /\ last.obj # last.reg_before
                 /\ get(last.cid) = [outcome |-> "ok", conn |-> last.conn]
          /\ (last.op = "ensure_authenticated" /\ last.nrefresh = 0
                 /\ \E q \in Slots : calls[q].op = "connect" /\ calls[q].cid = last.cid) =>
                 \/ last.outcome = "FHIRConnectionError" /\ last.reg_before = 0
                 \/ last.outcome = "ok" /\ last.obj # 0 /\ last.obj = last.reg_before
         )
    /\ [][\A cid \in AllConnIds :
            connections'[cid] # connections[cid] =>
                /\ last'.cid = cid
                /\ \/ last'.op = "connect" /\ last'.outcome = "ok"
                   \/ last'.op = "disconnect"]_vars

\* A connect registers over the entry that a concurrent connect on the same id
\* stored while this one was awaiting authentication.
C13_Witness ==
    /\ last.op = "connect" /\ last.outcome = "ok"
    /\ last.reg_at_call = 0 /\ last.reg_before # 0
    /\ connections[last.cid] = last.obj /\ last.obj # last.reg_before
    /\ heap[last.obj].status = "connected"

\* C14: membership in the registry follows the history of connects and
\* disconnects.  The registry starts empty; get(id) succeeds right after a
\* successful connect(id) and raises right after a disconnect(id), and whether
\* get(id) succeeds changes in no other step, so that it succeeds exactly when the
\* most recent of the two was a connect.  disconnect(id) returns true exactly when
\* there was an entry, a disconnect(id) right after a disconnect(id) returns
\* false, and a disconnect starts no request and leaves every other entry, and
\* the Connection it refers to, as it was.
C14_MembershipFollowsHistory ==
    /\ [](
          /\ (last.op = "connect" /\ last.outcome = "ok") => get(last.cid).outcome = "ok"
          /\ last.op = "disconnect" =>
                 /\ last.value = (last.reg_before # 0)
                 /\ get(last.cid).outcome = "FHIRConnectionError"
                 /\ last.reqs = <<>> /\ last.nrefresh = 0 /\ last.nauth = 0
         )
    /\ [][
          /\ \A cid \in AllConnIds :
                 (get(cid).outcome = "ok") # (get(cid).outcome' = "ok") =>
                     /\ last'.cid = cid
                     /\ \/ last'.op = "connect" /\ last'.outcome = "ok"
                        \/ last'.op = "disconnect"
          /\ last'.op = "disconnect" =>
                 /\ calls' = calls
                 /\ \A d \in AllConnIds \ {last'.cid} : get(d)' = get(d)
                 /\ (last.op = "disconnect" /\ last.cid = last'.cid) => last'.value = FALSE
         ]_vars

\* A disconnect removed the entry of one id while the other id was registered.
C14_Witness ==
    /\ last.op = "disconnect" /\ last.value = TRUE
    /\ get(last.cid).outcome = "FHIRConnectionError"
    /\ \E d \in AllConnIds \ {last.cid} :
           get(d).outcome = "ok" /\ get(d).conn.status = "connected"

\* C15: one ensure_authenticated call on a connection whose token is expired
\* makes one refresh attempt and after it at most one full authenticate attempt,
\* that one only when the refresh failed with FHIRAuthError; whatever the token
\* endpoint answers, the answer to the refresh ends the call or leads to the
\* authenticate attempt, and the answer to that one ends the call: no attempt is
\* ever repeated.
C15_OneRefreshThenOneAuthenticate ==
    /\ [](
          /\ (last.op \in {"ensure_authenticated", "request"} /\ last.obj # 0) =>
                 /\ last.nrefresh \in {0, 1}
                 /\ last.op = "ensure_authenticated" =>
                        last.nrefresh = (IF Unexpired(last.entry.auth) THEN 0 ELSE 1)
                 /\ last.nauth <= last.nrefresh
                 /\ last.nauth = 1 <=> last.refresh_outcome = "FHIRAuthError"
                 /\ last.outcome \in
                        {"ok", last.refresh_outcome, last.reauth_outcome}
                            \cup (IF last.op = "request" THEN FHIRErrors \cup
                                       {"ValueError", "JSONDecodeError"} ELSE {})
          /\ \A p \in Slots :
                 /\ calls[p].pc = "refresh" => calls[p].nrefresh = 1 /\ calls[p].nauth = 0
                 /\ calls[p].pc = "reauthenticate" =>
                        /\ calls[p].nrefresh = 1 /\ calls[p].nauth = 1
                        /\ calls[p].refresh_outcome = "FHIRAuthError"
         )
    /\ [][\A p \in Slots :
            /\ (calls[p].pc = "refresh" /\ calls'[p] # calls[p]) =>
                   calls'[p].pc \in {"reauthenticate", "http", "idle"}
            /\ (calls[p].pc = "reauthenticate" /\ calls'[p] # calls[p]) =>
                   calls'[p].pc \in {"http", "idle"}
         ]_vars

\* The refresh failed, the authenticate attempt was answered with a body without
\* access_token, and the call ended there.
C15_Witness ==
    /\ last.op = "ensure_authenticated" /\ ~Unexpired(last.entry.auth)
    /\ last.nrefresh = 1 /\ last.refresh_outcome = "FHIRAuthError"
    /\ last.nauth = 1 /\ last.reauth_outcome = "KeyError"
    /\ last.outcome = "KeyError"

\* C16: nothing is retried.  One call of FHIRClient.request, of bulk export start,
\* of bulk export status or of bulk export cancel sends at most one HTTP request to
\* the FHIR server (token requests not counted): whatever the response or the
\* transport failure, it ends the call.  A status that was not expected is reported
\* to the caller: a kick-off not answered 202 gives an error envelope, a poll
\* answered neither 200 nor 202 gives the phase error, and a transport failure of
\* the request client gives FHIRNetworkError.
SingleRequestOps == {"request", "fhir_bulk_export_start", "fhir_bulk_export_status",
           "fhir_bulk_export_cancel"}

RejectedNotComplete ==
    /\ last.op = "fhir_bulk_export_download" /\ last.outcome = "ok"
    /\ ~last.value.success /\ last.value.message = "Export not complete"

C18_FileIndexOutOfRange ==
    (last.op = "fhir_bulk_export_download" /\ last.args.file_index # None
        /\ last.resps # <<>> /\ last.resps[1].transport = "ok"
        /\ last.resps[1].status_code = 200 /\ last.resps[1].json) =>
        LET files == filter_type(file_entries(last.resps[1].output), last.args.resource_type)
            i == last.args.file_index[1]
        IN IF i < 0 \/ i >= Len(files)
           THEN /\ last.outcome = "ok" /\ ~last.value.success
                /\ last.value.message = "File index out of range"
                /\ Len(last.reqs) = 1
           ELSE /\ Len(last.reqs) <= 2
                /\ Len(last.reqs) = 2 => last.reqs[2].url = files[i + 1].url
                /\ (last.outcome = "ok" /\ last.value.success /\ files[i + 1].url # <<>>) =>
                       Len(last.reqs) = 2

\* C19: the result of a successful bulk export download of a complete job holds
\* exactly one entry for each selected output file, in the order of the file list:
\* every selected file is fetched, and a file whose fetch does not succeed makes
\* the download fail instead of being left out of a successful result.  (Stated
\* for manifests whose output elements all have a URL, and for a file_index that
\* is absent or within the list.)
C19_OneEntryPerSelectedFile ==
    (last.op = "fhir_bulk_export_download" /\ last.outcome = "ok"
        /\ last.resps # <<>> /\ last.resps[1].transport = "ok"
        /\ last.resps[1].status_code = 200 /\ last.resps[1].json
        /\ (\A k \in 1..Len(last.resps[1].output) : last.resps[1].output[k].url # <<>>)
        /\ last.value.success) =>
        LET files == filter_type(file_entries(last.resps[1].output), last.args.resource_type)
            i == last.args.file_index
            valid == i = None \/ (0 <= i[1] /\ i[1] < Len(files))
            selected == IF i = None THEN files ELSE <<files[i[1] + 1]>>
        IN valid =>
              /\ Len(last.reqs) = 1 + Len(selected)
              /\ \A k \in 1..Len(selected) : last.reqs[1 + k].url = selected[k].url
              /\ Len(last.value.data.files) = Len(selected)
              /\ \A k \in 1..Len(selected) :
                     /\ last.resps[1 + k].status_code = 200
                     /\ last.value.data.files[k].type = selected[k].type

\* C20: a bulk export start with export_type "group" and no group_id, or with an
\* export_type other than system, patient and group, fails before any HTTP call:
\* it returns an error envelope in the step in which it is called, having made no
\* kick-off request, no token request and no lookup of the connection (the error
\* is the same whether or not the connection exists), and the registry, every
\* Connection (its status and last-used stamp included) and every coroutine are
\* as they were.
C20_RefusedStartTouchesNothing ==
    [][(/\ last'.op = "fhir_bulk_export_start"
        /\ \/ last'.args.export_type = "group" /\ last'.args.group_id \in {None, Some("")}
           \/ last'.args.export_type \notin {"system", "patient", "group"}) =>
           /\ last'.outcome = "ok" /\ ~last'.value.success
           /\ last'.value.code = "FHIR_ERROR"
           /\ last'.reqs = <<>> /\ last'.nrefresh = 0 /\ last'.nauth = 0
           /\ last'.obj = 0
           /\ connections' = connections /\ heap' = heap /\ calls' = calls
      ]_vars

\* A start for a group without group_id was refused while the connection held an
\* expired token: a lookup would have marked it token_expired.
C20_Witness ==
    /\ last.op = "fhir_bulk_export_start" /\ last.outcome = "ok"
    /\ last.args.export_type = "group" /\ last.args.group_id = None
    /\ ~last.value.success /\ last.reqs = <<>>
    /\ get(last.cid).outcome = "ok"
    /\ needs_refresh(get(last.cid).conn, now)
    /\ get(last.cid).conn.status = "connected"

\* What bulk export cancel sends and reports: one DELETE to the job's status URL,
\* and for every response a success envelope whose `cancelled` is true exactly for
\* the statuses 200, 202 and 204.
CancelSendsAndReports ==
    (last.op = "fhir_bulk_export_cancel" /\ last.resps # <<>>
        /\ last.resps[1].transport = "ok") =>
        /\ last.reqs = <<[method |-> "DELETE",
                          url |-> last.conn.base_url
                                      \o <<"/", "$export-status", "/">> \o last.args.job_id]>>
        /\ last.outcome = "ok" /\ last.value.success
        /\ last.value.data.job_id = last.args.job_id
        /\ last.value.data.cancelled = (last.resps[1].status_code \in {200, 202, 204})

\* A step of a bulk export cancel in slot p.
CancelStep(p) ==
    /\ calls'[p] # calls[p]
    /\ "fhir_bulk_export_cancel" \in {calls[p].op, calls'[p].op}
           \/ (Idle(p) /\ last'.op = "fhir_bulk_export_cancel")

\* C21, as claimed: bulk export cancel issues one DELETE to the job's status URL,
\* reports cancelled = true exactly for the statuses 200, 202 and 204 and
\* cancelled = false in a normal result for any other, and no step of it changes
\* the registry or a Connection.
C21_CancelChangesNoConnection ==
    /\ []CancelSendsAndReports
    /\ [][\A p \in Slots :
            CancelStep(p) => connections' = connections /\ heap' = heap]_vars

\* C21, as the code has it: the same, but cancel begins with ensure_authenticated,
\* which stamps last_used_at and refreshes an expired token.  Cancel never
\* changes the registry; the step in which the response to the DELETE arrives
\* changes no Connection; and a cancel that found the token unexpired leaves the
\* AuthResult and the status of the Connection as they were.
C21_CancelWritesOnlyThroughEnsure ==
    /\ [](
          /\ CancelSendsAndReports
          /\ (last.op = "fhir_bulk_export_cancel" /\ last.obj # 0 /\ last.nrefresh = 0) =>
                 /\ last.conn.auth_result = last.entry.auth
                 /\ last.conn.status = last.entry.status
         )
    /\ [][\A p \in Slots :
            /\ CancelStep(p) => connections' = connections
            /\ (CancelStep(p) /\ calls[p].pc = "http") => heap' = heap
         ]_vars

\* A cancel whose DELETE was answered 404 returned cancelled = false in a success
\* envelope.
C21_Witness ==
    /\ last.op = "fhir_bulk_export_cancel" /\ last.outcome = "ok"
    /\ Len(last.reqs) = 1 /\ last.reqs[1].method = "DELETE"
    /\ Len(last.resps) = 1 /\ last.resps[1].status_code = 404
    /\ last.value.success /\ last.value.data.cancelled = FALSE

\* C22: for a job that start reported as created, the URL that a status poll
\* requests, and that a cancel sends its DELETE to, is the polling URL start
\* returned, the Content-Location of the kick-off response, whatever that header
\* was.  Stated of the status poll or cancel that follows the start right away,
\* on the same connection and with the job id start returned.
C22_PollsTheContentLocation ==
    [][\A p \in Slots :
          (/\ last.op = "fhir_bulk_export_start" /\ last.outcome = "ok"
           /\ last.value.success /\ last.value.data.job_id # None
           /\ calls'[p].op \in {"fhir_bulk_export_status", "fhir_bulk_export_cancel"}
           /\ calls'[p].cid = last.cid
           /\ calls'[p].args.job_id = last.value.data.job_id[1]
           /\ Idle(p) /\ calls'[p].reqs # <<>>) =>
              /\ last.value.data.polling_url = last.resps[1].content_location
              /\ calls'[p].reqs[1].url = last.value.data.polling_url
      ]_vars

\* C23: for the SMART Backend Services provider refresh(previous) is
\* authenticate(): each refresh is one token request, and for every previous
\* AuthResult and every answer of the token endpoint its result, or its failure,
\* is the one authenticate() gives for that answer.  So in ensure_authenticated a
\* failed refresh and the fallback are the same exchange twice: two token requests
\* at most, and the same answer gives the same failure both times.
C23_RefreshIsAuthenticate ==
    (last.op = "ensure_authenticated" /\ last.nrefresh = 1) =>
        LET first == authenticate(last.tokens[1].resp, last.tokens[1].at,
                                  last.entry.auth.id + 1)
        IN /\ Len(last.tokens) = last.nrefresh + last.nauth /\ Len(last.tokens) <= 2
           /\ last.refresh_outcome = first.outcome
           /\ first.outcome = "ok" => last.conn.auth_result = first.result
           /\ last.nauth = 1 =>
                  LET second == authenticate(last.tokens[2].resp, last.tokens[2].at,
                                             last.entry.auth.id + 1)
                  IN /\ last.reauth_outcome = second.outcome
                     /\ second.outcome = "ok" => last.conn.auth_result = second.result
                     /\ last.tokens[2].resp = last.tokens[1].resp =>
                            last.reauth_outcome = last.refresh_outcome

\* The token endpoint gave the same refusal to the refresh and to the fallback.
C23_Witness ==
    /\ last.op = "ensure_authenticated" /\ last.nrefresh = 1 /\ last.nauth = 1
    /\ Len(last.tokens) = 2 /\ last.tokens[1].resp = last.tokens[2].resp
    /\ last.tokens[1].resp.status_code = 400
    /\ last.refresh_outcome = "FHIRAuthError" /\ last.reauth_outcome = "FHIRAuthError"

\* C24: on an enabled MemoryCache with max_size >= 1, whatever set, get, delete,
\* invalidate, clear and cleanup_expired calls were made, no more than max_size
\* entries are stored, and every step raises the evictions counter by the number
\* of entries that set's loop removed to make room (0 in every other call).
C24_SizeWithinMaxAndEvictionsCounted ==
    /\ [](enabled /\ max_size >= 1 => size(memory_cache) <= max_size)
    /\ [][memory_cache'.evictions - memory_cache.evictions
              = Cardinality(cache_last'.evicted)]_vars

C24_Witness ==
    /\ cache_last.op = "set"
    /\ cache_last.evicted # {}
    /\ size(memory_cache) = max_size
    /\ memory_cache.evictions = 2

\* C28: an entry is evicted only by a set of a key that is not cached, into a cache
\* holding max_size entries, and then exactly one entry goes, the least recently
\* used one; a set that overwrites a cached key evicts nothing.
C28_EvictsOnlyForNewKeyInFullCache ==
    [][/\ cache_last'.evicted # {} =>
              /\ cache_last'.op = "set"
              /\ cache_last'.key[1] \notin cached(memory_cache)
              /\ size(memory_cache) = max_size
              /\ cache_last'.evicted = {Head(memory_cache.access_order)}
       /\ (cache_last'.op = "set" /\ cache_last'.key[1] \in cached(memory_cache)) =>
              /\ cache_last'.evicted = {}
              /\ memory_cache'.evictions = memory_cache.evictions]_vars

\* the callbacks of a list that stayed registered all through a delivery
Stayed(callbacks) ==
    SelectSeq(callbacks, LAMBDA cb : cb \notin hook_last.gone \cup hook_last.came)

\* C25: handle_notification calls, for a notification that is no handshake, every
\* callback registered when it was called, once per registration and in the order
\* of registration, whether or not a callback before it raised; it calls none for
\* a handshake; and it calls no callback that was not registered.
C25_DeliversToEveryCallbackInOrder ==
    hook_last.op = "handle_notification" =>
        IF hook_last.event_type = "handshake" THEN hook_last.delivered = <<>>
        ELSE /\ Stayed(hook_last.delivered) = Stayed(hook_last.at_call)
             /\ \A i \in 1..Len(hook_last.delivered) :
                    \/ hook_last.delivered[i] \in hook_last.came
                    \/ \E j \in 1..Len(hook_last.at_call) :
                           hook_last.at_call[j] = hook_last.delivered[i]

\* C26: two ensure_authenticated calls on one connection may both find the same
\* token expired and each send its own token request; each that is granted a
\* token assigns it, so as a call ends the connection holds the AuthResult made
\* from the answer that call received, whatever the other call had assigned.
C26_LastWriteWins ==
    (last.op = "ensure_authenticated" /\ last.outcome = "ok" /\ last.nrefresh = 1) =>
        LET t == last.tokens[Len(last.tokens)]
            held == last.conn.auth_result
        IN /\ held = authenticate(t.resp, t.at, held.id).result
           /\ held.id > last.entry.auth.id
           /\ last.conn.status = "connected"

\* Both calls saw the AuthResult last.entry.auth, both were granted a token, and
\* the call that ends here assigned second.
C26_Witness ==
    /\ last.op = "ensure_authenticated" /\ last.outcome = "ok" /\ last.nrefresh = 1
    /\ last.conn.auth_result.id = last.entry.auth.id + 2
    /\ connections[last.cid] = last.obj

\* a step of an ensure_authenticated call, and the Connection object it holds
EnsureStepOf(p) ==
    /\ calls'[p] # calls[p]
    /\ calls[p].op = "ensure_authenticated" \/ calls'[p].op = "ensure_authenticated"

EnsureLooksUpAndEnds == last'.op = "ensure_authenticated" /\ calls' = calls

\* C27: no step of ensure_authenticated changes the registry, and none changes a
\* Connection other than the one the call looked up as it began; so a call that
\* ends after disconnect(id) or a replacing connect(id) leaves the id absent, or
\* the new Connection as it was.
C27_EnsureTouchesOnlyItsConnection ==
    [][/\ (EnsureLooksUpAndEnds \/ \E p \in Slots : EnsureStepOf(p)) =>
              connections' = connections
       /\ \A p \in Slots : EnsureStepOf(p) =>
              \A o \in Objs :
                  (o \in LiveObjs(connections', calls') /\ o # calls[p].obj /\ o # calls'[p].obj)
                      => heap'[o] = heap[o]]_vars

\* a call ends having assigned a new token to a Connection that connect(id) has
\* replaced in the registry meanwhile
C27_Witness ==
    /\ last.op = "ensure_authenticated" /\ last.outcome = "ok" /\ last.nrefresh = 1
    /\ connections[last.cid] # 0
    /\ connections[last.cid] # last.obj
    /\ heap[connections[last.cid]].auth_result.id = 1

\* the events of a sequence that log() had accepted when stop() was called and
\* whose write did not fail
AcceptedAtStop(events) ==
    SelectSeq(events, LAMBDA e : e <= audit_hist.at_stop /\ e \notin audit.lost)

\* C29: once started with async logging, a stop() that was called returns, and
\* when it returns the worker has written every event log() had accepted before
\* the call, in the order they were logged, however many were queued.
C29_StopReturnsWithEveryEventWritten ==
    /\ (audit.stop_pc # "idle") ~> (audit.stop_pc = "idle")
    /\ []((audit_hist.returned /\ audit_hist.started) =>
              AcceptedAtStop(audit.written)
                  = AcceptedAtStop([e \in 1..audit_hist.accepted |-> e]))

\* the loops of a subscription id that are connecting, receiving or about to
\* reconnect
RunningLoops(subscription_id) ==
    {k \in Loops : /\ ws.loops[k].subscription_id = subscription_id
                   /\ ws.loops[k].pc \in {"connecting", "receiving", "sleeping"}}

\* C30: no subscription id has more than one connection loop running; only the
\* loop of the latest connect(id) opens a websocket or delivers a notification;
\* and when disconnect(id) returns, no loop of the id runs and the id has no
\* connection.
C30_OneLoopPerSubscription ==
    /\ \A s \in SubIds : Cardinality(RunningLoops(s)) <= 1
    /\ ws_last.op \in {"connected", "delivered"} =>
           ws.tasks[ws_last.subscription_id] = ws_last.loop
    /\ ws_last.op = "disconnect" =>
           /\ RunningLoops(ws_last.subscription_id) = {}
           /\ ws.connections[ws_last.subscription_id] = 0
====
